---- MODULE Spec2Model ----
(***************************************************************************)
(* Model of the outline document store (app/src-tauri/src/data):           *)
(*   - Node / Operation / NodeChanges and Operation::apply (operations.rs) *)
(*   - Document::load / append_op / compact / reload (document.rs)         *)
(*   - the save_op / compact_document commands (commands.rs)               *)
(*                                                                         *)
(* Specifications:                                                         *)
(*   SpecApply - Operation::apply and the sort-and-apply replay of         *)
(*               Document::load, run on bounded operation logs.            *)
(*   Spec      - one machine running the commands on its copy of the       *)
(*               document directory while the file-sync agent delivers     *)
(*               what other machines wrote.                                *)
(*   SpecSync  - two machines running the commands, each on its copy of    *)
(*               the directory, and the file-sync agent copying file       *)
(*               changes between the copies.                               *)
(*   SpecLoad  - load and reload of a directory in which the sync agent    *)
(*               can leave a truncated pending line.                       *)
(*   SpecThreads - two command threads building and saving operations.     *)
(*   SpecExport - the OPML and Markdown exports, the document listing and  *)
(*               the OPML import, on bounded trees.                        *)
(*   SpecWatcher - start_documents_watcher and stop_documents_watcher on   *)
(*               two command threads, and the watcher threads.             *)
(*   SpecEvents, SpecEventsFair - one watcher thread, its debouncer and    *)
(*               the files written under documents/.                       *)
(*   SpecIndex - index_document on the two connections to the search       *)
(*               index, and search.                                        *)
(*   SpecOpml  - parse_opml reading the events of a document body one by   *)
(*               one.                                                      *)
(*   SpecWal   - the mutation commands and compact of one machine step by  *)
(*               step, with failing appends and a stop of the process     *)
(*               inside compact.                                           *)
(*   SpecInbox - import_inbox_items and the capture producer on            *)
(*               inbox.jsonl.                                              *)
(***************************************************************************)
EXTENDS Integers, Sequences, FiniteSets, TLC

VARIABLES
    st0,      \* SpecApply: the DocumentState the log is applied to
    log,      \* SpecApply: the operations applied so far, in order
    pre,      \* SpecApply: the DocumentState before the last apply
    st,       \* SpecApply: the current DocumentState
    disk,     \* Spec: per machine, the files of the document directory
    doc,      \* Spec: per machine, AppState.current_document
    dirty,    \* SpecSync: per machine, files changed locally, not yet synced
    fresh,    \* Spec: per machine, doc is the result of a load of disk
    seen,     \* Spec: per machine, the directory as of the last load, with
              \*   what the machine wrote to it since
    lastCompact, \* Spec: per machine, record of the latest compaction
    saves,    \* Spec: number of operations written to pending files so far
    result,   \* Spec: per machine, the last command and what it returned
    modified, \* Spec: per machine, the files whose modification time is
              \*   later than doc.last_load_time
    elapsed,  \* Spec: per machine, the clock is later than doc.last_load_time
    removed,  \* Spec: per machine, ids of the nodes a saved Delete removed
    clock,    \* SpecThreads: the wall clock Utc::now() reads
    tpc,      \* SpecThreads: per thread, where it is within its command
    top,      \* SpecThreads: per thread, the Operation its command built
    pfile,    \* SpecThreads: the operations of the local pending file
    applied,  \* SpecThreads: the operations applied to the in-memory state
    tree,     \* SpecExport: the nodes handed to an export or a listing
    exported, \* SpecExport: what the last export, listing or import returned
    handle,   \* SpecWatcher: WatcherState.handle, the registered watcher thread
    wthread,  \* SpecWatcher: per watcher thread, how far it has got
    stop_rx,  \* SpecWatcher: per watcher thread, a stop signal is in its channel
    wpc,      \* SpecWatcher: per command thread, where it is within a
              \*   start_documents_watcher, and what its last command returned
    event_map, \* SpecEvents: per watcher thread, the paths its debouncer holds
    event_rx, \* SpecEvents: per watcher thread, the batches its loop has
              \*   not received yet
    emitted,  \* SpecEvents: the last documents-changed payload handed to emit
    owed,     \* SpecEvents: document ids modified under a watching thread
              \*   and in no payload since
    mods,     \* SpecEvents: number of file modifications so far
    wphase,   \* SpecEvents: per watcher thread, the half of a loop turn it
              \*   is in: the stop check or the receive
    db,       \* SpecIndex: the rows of the nodes table of outline.db
    ipc,      \* SpecIndex: per connection, where its index_document has got
    found,    \* SpecIndex: what the last search returned
    parser,   \* SpecOpml: the events of the reader, how many parse_opml has
              \*   read, and its nodes, parent_stack and in_body
    wal,      \* SpecWal: the command or compaction in progress, the
              \*   operations applied since the last load or compaction,
              \*   and what a stop of the process left behind
    inb       \* SpecInbox: inbox.jsonl, where import_inbox_items has got,
              \*   and the contents of the nodes below the inbox node

applyVars == <<st0, log, pre, st>>
storeVars == <<disk, doc, dirty, fresh, seen, lastCompact, saves>>
cmdVars == <<result, modified, elapsed, removed>>
threadVars == <<clock, tpc, top, pfile, applied>>
exportVars == <<tree, exported>>
watcherVars == <<handle, wthread, stop_rx, wpc, event_map, event_rx,
                 emitted, owed, mods, wphase>>
indexVars == <<db, ipc, found>>
parseVars == <<parser>>
walVars == <<wal>>
inboxVars == <<inb>>
extVars == <<threadVars, exportVars, watcherVars, indexVars,
             parseVars, walVars, inboxVars>>
notThreadVars == <<applyVars, storeVars, cmdVars, exportVars,
                   watcherVars, indexVars, parseVars, walVars,
                   inboxVars>>
notExportVars == <<applyVars, storeVars, cmdVars, threadVars,
                   watcherVars, indexVars, parseVars, walVars,
                   inboxVars>>
notWatcherVars == <<applyVars, storeVars, cmdVars, threadVars,
                    exportVars, indexVars, parseVars, walVars,
                    inboxVars>>
notIndexVars == <<applyVars, storeVars, cmdVars, threadVars,
                  exportVars, watcherVars, parseVars, walVars,
                  inboxVars>>
notParseVars == <<applyVars, storeVars, cmdVars, threadVars,
                  exportVars, watcherVars, indexVars, walVars,
                  inboxVars>>
notWalVars == <<applyVars, storeVars, cmdVars, threadVars,
                exportVars, watcherVars, indexVars, parseVars,
                inboxVars>>
notInboxVars == <<applyVars, storeVars, cmdVars, threadVars,
                  exportVars, watcherVars, indexVars, parseVars,
                  walVars>>
vars == <<applyVars, storeVars, cmdVars, extVars>>

(***************************************************************************)
(* Bounds                                                                  *)
(***************************************************************************)
MaxId == 2        \* node ids are 1..MaxId
MaxTime == 3      \* updated_at values are 1..MaxTime
MaxLog == 2       \* length of the operation log applied in SpecApply
MaxSaves == 2     \* number of operations written to pending files in Spec
MaxStoreTime == 2 \* updated_at values of the operations saved in Spec
SmallLine == 100  \* byte length of an ordinary pending line in Spec
MaxClock == 2     \* clock readings are 0..MaxClock in SpecThreads
MaxCalls == 3     \* number of mutation commands entered in SpecThreads
MaxNodes == 3     \* number of nodes of an exported document in SpecExport
MaxWatchers == 3  \* number of watcher threads ever spawned in SpecWatcher
MaxMods == 3      \* number of file modifications in SpecEvents
MaxQueue == 2     \* capacity given to the debouncer's channel in SpecEvents
MaxIndexIds == 2  \* node ids of the search index are 1..MaxIndexIds
MaxEvents == 6    \* outline events between <body> and </body>
MaxWalOps == 4    \* operations the commands of SpecWal handle in all
MaxItems == 4     \* items the capture producer appends in all

NodeIds == 1..MaxId
Times == 1..MaxTime

(***************************************************************************)
(* Option<T>: None is the empty sequence, Some(v) the one-element one.     *)
(***************************************************************************)
None == <<>>
Some(v) == <<v>>
IsSome(o) == o # None
Unwrap(o) == o[1]

(***************************************************************************)
(* node.rs                                                                 *)
(***************************************************************************)
NodeTypeDefault == "bullet"
NodeTypes == {"bullet", "checkbox", "heading"}

(* NodeChanges::default(): every field absent *)
NoChanges ==
    [content |-> None, note |-> None, node_type |-> None,
     heading_level |-> None, is_checked |-> None, color |-> None,
     tags |-> None, date |-> None, date_recurrence |-> None,
     collapsed |-> None, mirror_source_id |-> None]

(* DocumentState::new() *)
EmptyState == [nodes |-> <<>>]

(***************************************************************************)
(* operations.rs - constructors of the four Operation variants             *)
(***************************************************************************)
CreateOp(id, parent_id, position, content, node_type, updated_at) ==
    [op |-> "create", id |-> id, parent_id |-> parent_id,
     position |-> position, content |-> content, node_type |-> node_type,
     updated_at |-> updated_at]

UpdateOp(id, changes, updated_at) ==
    [op |-> "update", id |-> id, changes |-> changes,
     updated_at |-> updated_at]

MoveOp(id, parent_id, position, updated_at) ==
    [op |-> "move", id |-> id, parent_id |-> parent_id,
     position |-> position, updated_at |-> updated_at]

DeleteOp(id, updated_at) ==
    [op |-> "delete", id |-> id, updated_at |-> updated_at]

(***************************************************************************)
(* Operation::apply                                                        *)
(***************************************************************************)
(* state.nodes.iter().any(|n| n.id == *id) *)
NodeExists(state, id) ==
    \E i \in 1..Len(state.nodes) : state.nodes[i].id = id

(* state.nodes.iter_mut().find(|n| n.id == *id): index of the first match,
   0 when there is none *)
FindNode(state, id) ==
    IF NodeExists(state, id)
    THEN CHOOSE i \in 1..Len(state.nodes) :
            /\ state.nodes[i].id = id
            /\ \A j \in 1..(i - 1) : state.nodes[j].id # id
    ELSE 0

(* the Node literal built by the Create arm *)
CreatedNode(op) ==
    [id |-> op.id, parent_id |-> op.parent_id, position |-> op.position,
     content |-> op.content, note |-> None, node_type |-> op.node_type,
     heading_level |-> None, is_checked |-> FALSE, color |-> None,
     tags |-> <<>>, date |-> None, date_recurrence |-> None,
     collapsed |-> FALSE, mirror_source_id |-> None,
     created_at |-> op.updated_at, updated_at |-> op.updated_at]

(* variant of ApplyCreate without the existence check *)
ApplyCreateUnchecked(op, state) ==
    [state EXCEPT !.nodes = Append(@, CreatedNode(op))]

ApplyCreate(op, state) ==
    IF NodeExists(state, op.id)
    THEN state
    ELSE [state EXCEPT !.nodes = Append(@, CreatedNode(op))]

(* variant of IsNewer that accepts every timestamp *)
IsNewerAlways(updated_at, node) == TRUE

(* variant of IsNewer that also accepts an equal timestamp *)
IsNewerNonStrict(updated_at, node) == updated_at >= node.updated_at

(* "Only apply if this update is newer": *updated_at > node.updated_at *)
IsNewer(updated_at, node) == updated_at > node.updated_at

(* variant of DateValue that stores the empty string like any other *)
DateValueNoClear(s) == Some(s)

(* date / date_recurrence: the empty string clears the field *)
DateValue(s) == IF s = "" THEN None ELSE Some(s)

(* variant of PatchNode that stores the note as given, absent included *)
PatchNodeReplaceNote(node, changes, updated_at) ==
    [node EXCEPT
       !.content = IF IsSome(changes.content)
                   THEN Unwrap(changes.content) ELSE @,
       !.note = changes.note,
       !.updated_at = updated_at]

(* the body of the Update arm on an accepted update *)
PatchNode(node, changes, updated_at) ==
    [node EXCEPT
       !.content = IF IsSome(changes.content)
                   THEN Unwrap(changes.content) ELSE @,
       !.note = IF IsSome(changes.note)
                THEN Some(Unwrap(changes.note)) ELSE @,
       !.node_type = IF IsSome(changes.node_type)
                     THEN Unwrap(changes.node_type) ELSE @,
       !.heading_level = IF IsSome(changes.heading_level)
                         THEN Some(Unwrap(changes.heading_level)) ELSE @,
       !.is_checked = IF IsSome(changes.is_checked)
                      THEN Unwrap(changes.is_checked) ELSE @,
       !.color = IF IsSome(changes.color)
                 THEN Some(Unwrap(changes.color)) ELSE @,
       !.tags = IF IsSome(changes.tags)
                THEN Unwrap(changes.tags) ELSE @,
       !.date = IF IsSome(changes.date)
                THEN DateValue(Unwrap(changes.date)) ELSE @,
       !.date_recurrence = IF IsSome(changes.date_recurrence)
                           THEN DateValue(Unwrap(changes.date_recurrence))
                           ELSE @,
       !.collapsed = IF IsSome(changes.collapsed)
                     THEN Unwrap(changes.collapsed) ELSE @,
       !.mirror_source_id = IF IsSome(changes.mirror_source_id)
                            THEN Some(Unwrap(changes.mirror_source_id))
                            ELSE @,
       !.updated_at = updated_at]

(* variant of ApplyUpdate that adds a node when the id is missing *)
ApplyUpdateOrCreate(op, state) ==
    LET i == FindNode(state, op.id) IN
    IF i = 0
    THEN [state EXCEPT
            !.nodes = Append(@, CreatedNode(CreateOp(op.id, None, 0, "",
                                                     NodeTypeDefault,
                                                     op.updated_at)))]
    ELSE IF IsNewer(op.updated_at, state.nodes[i])
         THEN [state EXCEPT
                 !.nodes[i] = PatchNode(@, op.changes, op.updated_at)]
         ELSE state

ApplyUpdate(op, state) ==
    LET i == FindNode(state, op.id) IN
    IF i # 0 /\ IsNewer(op.updated_at, state.nodes[i])
    THEN [state EXCEPT
            !.nodes[i] = PatchNode(@, op.changes, op.updated_at)]
    ELSE state

(* whether the parent_id links above id p in nodes lead to id x; fuel
   bounds the walk *)
RECURSIVE LeadsTo(_, _, _, _)
LeadsTo(nodes, p, x, fuel) ==
    IF p = x
    THEN TRUE
    ELSE IF fuel = 0
         THEN FALSE
         ELSE \E k \in 1..Len(nodes) :
                /\ nodes[k].id = p
                /\ nodes[k].parent_id # None
                /\ LeadsTo(nodes, Unwrap(nodes[k].parent_id), x, fuel - 1)

(* variant of ApplyMove that refuses a Move under the node itself or under
   one of its descendants *)
ApplyMoveAcyclic(op, state) ==
    LET i == FindNode(state, op.id) IN
    IF /\ i # 0
       /\ IsNewer(op.updated_at, state.nodes[i])
       /\ \/ op.parent_id = None
          \/ ~LeadsTo(state.nodes, Unwrap(op.parent_id), op.id,
                      Len(state.nodes))
    THEN [state EXCEPT
            !.nodes[i] = [@ EXCEPT !.parent_id = op.parent_id,
                                   !.position = op.position,
                                   !.updated_at = op.updated_at]]
    ELSE state

(* variant of ApplyMove that makes room at the new parent: the siblings
   at or after the new position are shifted by one *)
ApplyMoveRenumber(op, state) ==
    LET i == FindNode(state, op.id) IN
    IF i # 0 /\ IsNewer(op.updated_at, state.nodes[i])
    THEN [state EXCEPT
            !.nodes = [j \in 1..Len(@) |->
                         IF j = i
                         THEN [@[j] EXCEPT !.parent_id = op.parent_id,
                                           !.position = op.position,
                                           !.updated_at = op.updated_at]
                         ELSE IF /\ @[j].parent_id = op.parent_id
                                 /\ @[j].position >= op.position
                              THEN [@[j] EXCEPT !.position = @ + 1]
                              ELSE @[j]]]
    ELSE state

ApplyMove(op, state) ==
    LET i == FindNode(state, op.id) IN
    IF i # 0 /\ IsNewer(op.updated_at, state.nodes[i])
    THEN [state EXCEPT
            !.nodes[i] = [@ EXCEPT !.parent_id = op.parent_id,
                                   !.position = op.position,
                                   !.updated_at = op.updated_at]]
    ELSE state

(* to_delete.contains(&id) *)
Contains(seq, x) == \E k \in 1..Len(seq) : seq[k] = x

(* one pass of "for node in state.nodes.iter()" for the parent to_delete[i],
   starting at node index j *)
RECURSIVE ScanChildren(_, _, _, _)
ScanChildren(nodes, parent_id, j, to_delete) ==
    IF j > Len(nodes)
    THEN to_delete
    ELSE IF nodes[j].parent_id = Some(parent_id)
            /\ ~Contains(to_delete, nodes[j].id)
         THEN ScanChildren(nodes, parent_id, j + 1,
                           Append(to_delete, nodes[j].id))
         ELSE ScanChildren(nodes, parent_id, j + 1, to_delete)

(* variant of CollectToDelete that collects no child *)
CollectOnlyTarget(nodes, to_delete, i) == to_delete

(* "while i < to_delete.len()" (i is 1-based here) *)
RECURSIVE CollectToDelete(_, _, _)
CollectToDelete(nodes, to_delete, i) ==
    IF i > Len(to_delete)
    THEN to_delete
    ELSE CollectToDelete(nodes,
                         ScanChildren(nodes, to_delete[i], 1, to_delete),
                         i + 1)

(* state.nodes.retain(|n| !to_delete.contains(&n.id)) *)
Retain(nodes, to_delete) ==
    SelectSeq(nodes, LAMBDA n : ~Contains(to_delete, n.id))

(* variant of ApplyDelete that spares a node newer than the operation *)
ApplyDeleteIfNewer(op, state) ==
    LET i == FindNode(state, op.id) IN
    IF i # 0 /\ ~IsNewer(op.updated_at, state.nodes[i])
    THEN state
    ELSE [state EXCEPT
            !.nodes = Retain(@, CollectToDelete(@, <<op.id>>, 1))]

ApplyDelete(op, state) ==
    [state EXCEPT
       !.nodes = Retain(@, CollectToDelete(@, <<op.id>>, 1))]

Apply(op, state) ==
    CASE op.op = "create" -> ApplyCreate(op, state)
      [] op.op = "update" -> ApplyUpdate(op, state)
      [] op.op = "move"   -> ApplyMove(op, state)
      [] op.op = "delete" -> ApplyDelete(op, state)

(***************************************************************************)
(* Document::load, lines 116-121: sort by updated_at, then apply in order  *)
(***************************************************************************)
(* ops.sort_by_key(|op| op.updated_at()) is a stable sort: an operation is
   placed after every operation whose key is not greater *)
RECURSIVE InsertByKey(_, _)
InsertByKey(sorted, op) ==
    IF sorted = <<>>
    THEN <<op>>
    ELSE IF Head(sorted).updated_at <= op.updated_at
         THEN <<Head(sorted)>> \o InsertByKey(Tail(sorted), op)
         ELSE <<op>> \o sorted

(* variant of SortByKey that leaves the operations in read order *)
SortByKeySkipped(ops) == ops

RECURSIVE SortByKey(_)
SortByKey(ops) ==
    IF ops = <<>>
    THEN <<>>
    ELSE InsertByKey(SortByKey(SubSeq(ops, 1, Len(ops) - 1)),
                     ops[Len(ops)])

(* for op in ops { op.apply(&mut state) } *)
RECURSIVE ApplyAll(_, _)
ApplyAll(ops, state) ==
    IF ops = <<>>
    THEN state
    ELSE ApplyAll(Tail(ops), Apply(Head(ops), state))

(***************************************************************************)
(* serde: Node, DocumentState and Operation as JSON objects.  A JSON       *)
(* object is a function from its keys to their values; a key that is       *)
(* skipped on write is not in its domain.                                  *)
(***************************************************************************)
(* Node fields with #[serde(skip_serializing_if = "Option::is_none")] *)
NodeOptionKeys ==
    {"parent_id", "note", "heading_level", "color", "date",
     "date_recurrence", "mirror_source_id"}

(* Node fields that are always written *)
NodeAlwaysKeys ==
    {"id", "position", "content", "node_type", "is_checked", "collapsed",
     "created_at", "updated_at"}

(* the keys Serialize writes for a node: tags is skipped when empty *)
NodeJsonKeys(node) ==
    NodeAlwaysKeys
    \cup {k \in NodeOptionKeys : IsSome(node[k])}
    \cup (IF node.tags = <<>> THEN {} ELSE {"tags"})

NodeToJson(node) ==
    [k \in NodeJsonKeys(node) |->
        IF k \in NodeOptionKeys THEN Unwrap(node[k]) ELSE node[k]]

(* a missing Option field deserializes to None *)
JsonOption(obj, k) == IF k \in DOMAIN obj THEN Some(obj[k]) ELSE None

(* #[serde(default)] *)
JsonOrDefault(obj, k, default) == IF k \in DOMAIN obj THEN obj[k] ELSE default

NodeFromJson(obj) ==
    [id |-> obj.id,
     parent_id |-> JsonOption(obj, "parent_id"),
     position |-> obj.position,
     content |-> obj.content,
     note |-> JsonOption(obj, "note"),
     node_type |-> JsonOrDefault(obj, "node_type", NodeTypeDefault),
     heading_level |-> JsonOption(obj, "heading_level"),
     is_checked |-> JsonOrDefault(obj, "is_checked", FALSE),
     color |-> JsonOption(obj, "color"),
     tags |-> JsonOrDefault(obj, "tags", <<>>),
     date |-> JsonOption(obj, "date"),
     date_recurrence |-> JsonOption(obj, "date_recurrence"),
     collapsed |-> JsonOrDefault(obj, "collapsed", FALSE),
     mirror_source_id |-> JsonOption(obj, "mirror_source_id"),
     created_at |-> obj.created_at,
     updated_at |-> obj.updated_at]

(* serde_json::to_string_pretty(&self.state) *)
StateToJson(state) ==
    [nodes |-> [i \in 1..Len(state.nodes) |-> NodeToJson(state.nodes[i])]]

(* serde_json::from_str(&contents) for DocumentState *)
StateFromJson(json) ==
    [nodes |-> [i \in 1..Len(json.nodes) |-> NodeFromJson(json.nodes[i])]]

(* an Option field of an Operation is written as null or as its value *)
OptionToJson(o) ==
    IF IsSome(o) THEN [value |-> Unwrap(o)] ELSE [null |-> TRUE]

OptionFromJson(j) == IF "value" \in DOMAIN j THEN Some(j.value) ELSE None

(* NodeChanges: every field is skipped when None *)
ChangesToJson(changes) ==
    [k \in {f \in DOMAIN changes : IsSome(changes[f])} |->
        Unwrap(changes[k])]

ChangesFromJson(obj) ==
    [k \in DOMAIN NoChanges |-> JsonOption(obj, k)]

(* serde_json::to_string(op), #[serde(tag = "op")] *)
OpToJson(op) ==
    CASE op.op = "create" ->
            [op |-> "create", id |-> op.id,
             parent_id |-> OptionToJson(op.parent_id),
             position |-> op.position, content |-> op.content,
             node_type |-> op.node_type, updated_at |-> op.updated_at]
      [] op.op = "update" ->
            [op |-> "update", id |-> op.id,
             changes |-> ChangesToJson(op.changes),
             updated_at |-> op.updated_at]
      [] op.op = "move" ->
            [op |-> "move", id |-> op.id,
             parent_id |-> OptionToJson(op.parent_id),
             position |-> op.position, updated_at |-> op.updated_at]
      [] op.op = "delete" ->
            [op |-> "delete", id |-> op.id, updated_at |-> op.updated_at]

(* serde_json::from_str(&line) for Operation *)
OpFromJson(obj) ==
    CASE obj.op = "create" ->
            CreateOp(obj.id, OptionFromJson(obj.parent_id), obj.position,
                     obj.content,
                     JsonOrDefault(obj, "node_type", NodeTypeDefault),
                     obj.updated_at)
      [] obj.op = "update" ->
            UpdateOp(obj.id,
                     IF "changes" \in DOMAIN obj
                     THEN ChangesFromJson(obj.changes) ELSE NoChanges,
                     obj.updated_at)
      [] obj.op = "move" ->
            MoveOp(obj.id, OptionFromJson(obj.parent_id), obj.position,
                   obj.updated_at)
      [] obj.op = "delete" -> DeleteOp(obj.id, obj.updated_at)

(***************************************************************************)
(* document.rs - the document directory and Document                       *)
(***************************************************************************)
Machines == {"A", "B"}

Other(m) == IF m = "A" THEN "B" ELSE "A"

(* hostname::get() *)
Hostname(m) == m

(* Document::state_path *)
StatePath == "state.json"

(* Document::pending_path: pending.{hostname}.jsonl *)
PendingPath(hostname) == "pending." \o hostname \o ".jsonl"

(* name.starts_with("pending.") && name.ends_with(".jsonl") *)
PendingNames == {PendingPath(Hostname(m)) : m \in Machines}

IsPendingName(name) == name \in PendingNames

FileNames == {StatePath} \cup PendingNames

(* a line of a pending file: the serialized operation and its length in
   bytes, newline included *)
PendingLine(op, bytes) == [json |-> OpToJson(op), bytes |-> bytes]

(* fs::read_dir: the entries come in an arbitrary order; load skips every
   entry that is not a pending file, so an order lists the pending names *)
ReadDirOrders ==
    {order \in [1..Cardinality(PendingNames) -> PendingNames] :
        \A f \in PendingNames : \E i \in DOMAIN order : order[i] = f}

(* the lines of one file, parsed (an absent file has none) *)
ParsedLines(dir, name) ==
    IF dir[name] = None
    THEN <<>>
    ELSE [i \in 1..Len(Unwrap(dir[name])) |->
            OpFromJson(Unwrap(dir[name])[i].json)]

(* Document::load, lines 92-114: the operations of every pending file, in
   directory order *)
RECURSIVE ReadPending(_, _)
ReadPending(dir, order) ==
    IF order = <<>>
    THEN <<>>
    ELSE (IF IsPendingName(Head(order))
          THEN ParsedLines(dir, Head(order))
          ELSE <<>>)
         \o ReadPending(dir, Tail(order))

(* Document::load, lines 83-90 *)
(* serde_json::from_str::<Operation> succeeds on the text of a line *)
ParsesAsOperation(obj) ==
    /\ "op" \in DOMAIN obj
    /\ obj.op \in {"create", "update", "move", "delete"}

(* Document::load returns Err("Parse op: ..."): some line of some pending
   file does not parse *)
LoadFails(dir) ==
    \E f \in PendingNames :
        /\ dir[f] # None
        /\ \E i \in 1..Len(Unwrap(dir[f])) :
              ~ParsesAsOperation(Unwrap(dir[f])[i].json)

BaseState(dir) ==
    IF dir[StatePath] = None
    THEN EmptyState
    ELSE StateFromJson(Unwrap(dir[StatePath]))

(* Document::load *)
Load(dir, order) ==
    LET ops == ReadPending(dir, order) IN
    [state |-> ApplyAll(SortByKey(ops), BaseState(dir)),
     pending_op_count |-> Len(ops)]

(* Document::append_op: the directory after the append *)
AppendLine(dir, name, line) ==
    [dir EXCEPT ![name] = IF @ = None THEN Some(<<line>>)
                          ELSE Some(Append(Unwrap(@), line))]

(* fs::metadata(&pending_path).len() *)
RECURSIVE SumBytes(_)
SumBytes(lines) ==
    IF lines = <<>> THEN 0 ELSE Head(lines).bytes + SumBytes(Tail(lines))

AutoCompactOps == 1000
AutoCompactBytes == 1000000

(* Document::should_auto_compact *)
(* variant of ShouldAutoCompact whose size comparison is strict *)
ShouldAutoCompactAbove(d, dir, m) ==
    \/ d.pending_op_count >= AutoCompactOps
    \/ /\ dir[PendingPath(Hostname(m))] # None
       /\ SumBytes(Unwrap(dir[PendingPath(Hostname(m))])) > AutoCompactBytes

ShouldAutoCompact(d, dir, m) ==
    \/ d.pending_op_count >= AutoCompactOps
    \/ /\ dir[PendingPath(Hostname(m))] # None
       /\ SumBytes(Unwrap(dir[PendingPath(Hostname(m))])) >= AutoCompactBytes

(* Document::save_state *)
SaveState(d, dir) == [dir EXCEPT ![StatePath] = Some(StateToJson(d.state))]

(* variant of ClearPending that removes this machine's pending file only *)
ClearOwnPending(dir, m) ==
    [dir EXCEPT ![PendingPath(Hostname(m))] = None]

(* Document::clear_pending *)
ClearPending(dir, m) ==
    [f \in DOMAIN dir |-> IF IsPendingName(f) THEN None ELSE dir[f]]

(* Document::compact: the directory and the document after it *)
CompactDir(d, dir, m) == ClearPending(SaveState(d, dir), m)

(* variant of CompactDoc that keeps the pending operation count *)
CompactDocKeepCount(d) == d

CompactDoc(d) == [d EXCEPT !.pending_op_count = 0]

(* the files a compaction writes or removes *)
CompactTouched(dir) ==
    {StatePath} \cup {f \in PendingNames : dir[f] # None}

(* the operations held by the pending files of a directory, file by file *)
AllPendingOps(dir) == ReadPending(dir, CHOOSE order \in ReadDirOrders : TRUE)

SeqToSet(seq) == {seq[i] : i \in 1..Len(seq)}

(* record of a compaction: the state written, the snapshot and the pending
   operations it found, whether the directory held anything the machine had
   neither loaded nor written, and the operations it removed from disk
   without their having been applied to the state written *)
CompactRecord(d, dir, seenDir) ==
    Some([written |-> d.state,
          base |-> BaseState(dir),
          ops |-> AllPendingOps(dir),
          external |-> dir # seenDir,
          unapplied |-> SeqToSet(AllPendingOps(dir))
                            \ SeqToSet(AllPendingOps(seenDir))])

(***************************************************************************)
(* Spec: the machine Local runs the application on its copy of the         *)
(* document directory, while the sync agent delivers what other machines   *)
(* wrote: new lines of their pending files, their snapshot, the removal of *)
(* pending files by their compactions.                                     *)
(***************************************************************************)
Local == "A"
Remote == "B"

StoreTimes == 1..MaxStoreTime

(* a content of at least AutoCompactBytes bytes *)
LongContent == "long"

(* json.len() + 1 in append_op: the byte length of the serialized line *)
LineBytes(op) ==
    IF \/ (op.op = "create" /\ op.content = LongContent)
       \/ (op.op = "update" /\ op.changes.content = Some(LongContent))
    THEN AutoCompactBytes
    ELSE SmallLine

(* the operations the frontend sends to save_op on this machine *)
StoreOps ==
    {CreateOp(1, None, 0, "a", NodeTypeDefault, t) : t \in StoreTimes}
    \cup {UpdateOp(1, [NoChanges EXCEPT !.content = Some(LongContent)], t) :
            t \in StoreTimes}
    \cup {DeleteOp(1, t) : t \in StoreTimes}

(* the operations another machine wrote to its pending file *)
RemoteOps ==
    {CreateOp(1, None, 1, "b", "checkbox", t) : t \in StoreTimes}
    \cup {UpdateOp(1, [NoChanges EXCEPT !.content = Some("c"),
                                        !.note = Some("n"),
                                        !.tags = Some(<<"t">>)], t) :
            t \in StoreTimes}

(* the snapshot another machine's compaction wrote *)
RemoteSnapshots ==
    {StateToJson(ApplyAll(<<CreateOp(2, None, 0, "r", "heading", 1),
                            CreateOp(1, Some(2), 0, "a", NodeTypeDefault, 1)>>,
                          EmptyState))}

(* the directory as Document::create leaves it, or without a snapshot *)
InitialDirs ==
    {[f \in FileNames |-> None],
     [f \in FileNames |->
        IF f = StatePath THEN Some(StateToJson(EmptyState)) ELSE None]}

(* no command has run: no result, and no document whose last_load_time
   file times could be compared to *)
NoResult == [cmd |-> "", ret |-> "", check |-> None]

(* the command threads: none is inside a command *)
Threads == {1, 2}

ThreadIdle ==
    /\ clock = 0
    /\ tpc = [t \in Threads |-> "idle"]
    /\ top = [t \in Threads |-> None]
    /\ pfile = <<>>
    /\ applied = <<>>

ExportIdle ==
    /\ tree = <<>>
    /\ exported = None

(* the watcher threads, one per start_watcher call *)
WThreads == 1..MaxWatchers

(* the threads that run watcher commands *)
Callers == {1, 2}

(* the files the sync agent and the application write under documents/:
   two files of the document directory "d1", whose name is a UUID, and one
   file of a directory whose name is not *)
WatchedPaths == {<<"d1", "state.json">>, <<"d1", "pending.A.jsonl">>,
                 <<".tmp", "x">>}

(* no watcher has been started and no command is running *)
WatcherIdle ==
    /\ handle = None
    /\ wthread = [t \in WThreads |-> "none"]
    /\ stop_rx = [t \in WThreads |-> FALSE]
    /\ wpc = [c \in Callers |-> [pc |-> "idle", held |-> None, ret |-> ""]]
    /\ event_map = [t \in WThreads |-> [p \in WatchedPaths |-> "none"]]
    /\ event_rx = [t \in WThreads |-> <<>>]
    /\ emitted = None
    /\ owed = {}
    /\ mods = 0
    /\ wphase = [t \in WThreads |-> "check"]

(* the connections to outline.db: the one AppState.search_index holds and
   the one the indexing thread of load_document opens *)
Connections == {"main", "bg"}

IdleCall == [pc |-> "idle"]

(* the index is empty and no connection is used *)
IndexIdle ==
    /\ db = [i \in 1..MaxIndexIds |-> None]
    /\ ipc = [c \in Connections |-> IdleCall]
    /\ found = None

ParseIdle ==
    /\ parser = [events |-> <<>>, at |-> 0, nodes |-> <<>>,
                 parent_stack |-> <<>>, in_body |-> FALSE]

WalIdle ==
    /\ wal = [cmd |-> "none", todo |-> <<>>, appended |-> FALSE,
              since |-> <<>>, ret |-> "", cpc |-> "", crash |-> None,
              n |-> 0]

InboxIdle ==
    /\ inb = [file |-> None, pc |-> "idle", items |-> <<>>,
              remaining |-> <<>>, nodes |-> {}, made |-> 0, ret |-> ""]

ExtIdle ==
    /\ ThreadIdle /\ ExportIdle /\ WatcherIdle /\ IndexIdle
    /\ ParseIdle /\ WalIdle /\ InboxIdle

CmdIdle ==
    /\ result = [m \in Machines |-> NoResult]
    /\ modified = [m \in Machines |-> {}]
    /\ elapsed = [m \in Machines |-> FALSE]
    /\ removed = [m \in Machines |-> {}]

StoreIdle ==
    /\ disk = [m \in Machines |-> [f \in FileNames |-> None]]
    /\ doc = [m \in Machines |-> None]
    /\ dirty = [m \in Machines |-> {}]
    /\ fresh = [m \in Machines |-> FALSE]
    /\ seen = [m \in Machines |-> [f \in FileNames |-> None]]
    /\ lastCompact = [m \in Machines |-> None]
    /\ saves = 0
    /\ CmdIdle
    /\ ExtIdle

InitUnloaded ==
    /\ \E dir \in InitialDirs : disk = [m \in Machines |-> dir]
    /\ doc = [m \in Machines |-> None]
    /\ dirty = [m \in Machines |-> {}]
    /\ fresh = [m \in Machines |-> FALSE]
    /\ seen = [m \in Machines |-> [f \in FileNames |-> None]]
    /\ lastCompact = [m \in Machines |-> None]
    /\ saves = 0
    /\ CmdIdle
    /\ ExtIdle
    /\ st0 = EmptyState /\ log = <<>> /\ pre = EmptyState /\ st = EmptyState

(* the value a command returned, with the threshold check save_op made *)
Returned(cmd, ret) == [cmd |-> cmd, ret |-> ret, check |-> None]

(* the ids of the nodes of a document (none when no document is loaded) *)
DocIds(d) ==
    IF d = None
    THEN {}
    ELSE {Unwrap(d).state.nodes[i].id : i \in 1..Len(Unwrap(d).state.nodes)}

(* save_op: the ids that the applied operation takes out of machine m's
   document join removed *)
TrackRemoved(m) ==
    removed' = [removed EXCEPT ![m] = @ \cup (DocIds(doc[m]) \ DocIds(doc'[m]))]

(* last_load_time = SystemTime::now(): no file is later than it *)
StampLoadTime(m) ==
    /\ modified' = [modified EXCEPT ![m] = {}]
    /\ elapsed' = [elapsed EXCEPT ![m] = FALSE]

(* a write to file f of machine m's directory sets its modification time
   to the clock, which is later than last_load_time once time has passed *)
TouchFile(m, f) ==
    modified' = [modified EXCEPT
                   ![m] = IF elapsed[m] THEN @ \cup {f} ELSE @]

(* load_document on an existing directory: Document::load.  On a machine
   that already holds a document the command replaces it by the result of
   the same load, which is the step Reload takes. *)
(* variant of LoadFailed that leaves a document without pending count *)
LoadFailedReset(cur) ==
    IF cur = None THEN Some([state |-> EmptyState, pending_op_count |-> 0])
    ELSE Some([Unwrap(cur) EXCEPT !.pending_op_count = 0])

(* "Document::load(dir)?" returning the error: the assignment to the
   current document, or to self in reload, is not reached *)
LoadFailed(cur) == cur

LoadDocument(m) ==
    /\ doc[m] = None
    /\ IF LoadFails(disk[m])
       THEN /\ doc' = [doc EXCEPT ![m] = LoadFailed(@)]
            /\ result' = [result EXCEPT
                            ![m] = Returned("load_document", "err")]
            /\ UNCHANGED <<fresh, seen, modified, elapsed>>
       ELSE /\ \E order \in ReadDirOrders :
                 /\ doc' = [doc EXCEPT ![m] = Some(Load(disk[m], order))]
                 /\ fresh' = [fresh EXCEPT ![m] = TRUE]
                 /\ seen' = [seen EXCEPT ![m] = disk[m]]
            /\ result' = [result EXCEPT
                            ![m] = Returned("load_document", "ok")]
            /\ StampLoadTime(m)
    /\ removed' = removed
    /\ UNCHANGED <<disk, dirty, lastCompact, saves, applyVars, extVars>>

(* Document::reload *)
Reload(m) ==
    /\ doc[m] # None
    /\ IF LoadFails(disk[m])
       THEN /\ doc' = [doc EXCEPT ![m] = LoadFailed(@)]
            /\ result' = [result EXCEPT
                            ![m] = Returned("load_document", "err")]
            /\ UNCHANGED <<fresh, seen, modified, elapsed>>
       ELSE /\ \E order \in ReadDirOrders :
                 /\ doc' = [doc EXCEPT ![m] = Some(Load(disk[m], order))]
                 /\ fresh' = [fresh EXCEPT ![m] = TRUE]
                 /\ seen' = [seen EXCEPT ![m] = disk[m]]
            /\ result' = [result EXCEPT
                            ![m] = Returned("load_document", "ok")]
            /\ StampLoadTime(m)
    /\ removed' = removed
    /\ UNCHANGED <<disk, dirty, lastCompact, saves, applyVars, extVars>>

(* fs::metadata(&pending_path): the size of machine m's pending file, None
   when the file is missing *)
OwnPendingSize(dir, m) ==
    IF dir[PendingPath(Hostname(m))] = None
    THEN None
    ELSE Some(SumBytes(Unwrap(dir[PendingPath(Hostname(m))])))

(* what save_op returns, with what should_auto_compact saw and answered *)
SaveOpReturned(d, dir, m) ==
    [cmd |-> "save_op", ret |-> "ok",
     check |-> Some([count |-> d.pending_op_count,
                     size |-> OwnPendingSize(dir, m),
                     compact |-> ShouldAutoCompact(d, dir, m)])]

(* save_op: append_op, apply, then auto-compact when the threshold is
   reached *)
SaveOp(m, op) ==
    /\ doc[m] # None
    /\ saves < MaxSaves
    /\ LET own == PendingPath(Hostname(m))
           dir1 == AppendLine(disk[m], own, PendingLine(op, LineBytes(op)))
           d1 == [state |-> Apply(op, Unwrap(doc[m]).state),
                  pending_op_count |-> Unwrap(doc[m]).pending_op_count + 1]
           seen1 == AppendLine(seen[m], own, PendingLine(op, LineBytes(op)))
       IN IF ShouldAutoCompact(d1, dir1, m)
          THEN /\ disk' = [disk EXCEPT ![m] = CompactDir(d1, dir1, m)]
               /\ doc' = [doc EXCEPT ![m] = Some(CompactDoc(d1))]
               /\ dirty' = [dirty EXCEPT
                              ![m] = @ \cup CompactTouched(dir1)]
               /\ lastCompact' = [lastCompact EXCEPT
                                    ![m] = CompactRecord(d1, dir1, seen1)]
               /\ seen' = [seen EXCEPT ![m] = CompactDir(d1, dir1, m)]
               /\ StampLoadTime(m)
               /\ result' = [result EXCEPT
                               ![m] = SaveOpReturned(d1, dir1, m)]
          ELSE /\ disk' = [disk EXCEPT ![m] = dir1]
               /\ doc' = [doc EXCEPT ![m] = Some(d1)]
               /\ dirty' = [dirty EXCEPT ![m] = @ \cup {own}]
               /\ lastCompact' = [lastCompact EXCEPT ![m] = None]
               /\ seen' = [seen EXCEPT ![m] = seen1]
               /\ TouchFile(m, own)
               /\ elapsed' = elapsed
               /\ result' = [result EXCEPT
                               ![m] = SaveOpReturned(d1, dir1, m)]
    /\ fresh' = [fresh EXCEPT ![m] = FALSE]
    /\ saves' = saves + 1
    /\ TrackRemoved(m)
    /\ UNCHANGED <<applyVars, extVars>>

(* compact_document: Document::compact *)
CompactDocument(m) ==
    /\ doc[m] # None
    /\ disk' = [disk EXCEPT ![m] = CompactDir(Unwrap(doc[m]), disk[m], m)]
    /\ doc' = [doc EXCEPT ![m] = Some(CompactDoc(Unwrap(doc[m])))]
    /\ dirty' = [dirty EXCEPT ![m] = @ \cup CompactTouched(disk[m])]
    /\ lastCompact' = [lastCompact EXCEPT
                         ![m] = CompactRecord(Unwrap(doc[m]), disk[m],
                                              seen[m])]
    /\ seen' = [seen EXCEPT
                  ![m] = CompactDir(Unwrap(doc[m]), disk[m], m)]
    /\ fresh' = [fresh EXCEPT ![m] = FALSE]
    /\ result' = [result EXCEPT ![m] = Returned("compact_document", "ok")]
    /\ StampLoadTime(m)
    /\ UNCHANGED <<saves, removed, applyVars, extVars>>

(* variant of AppendOpFailed that counts the operation all the same *)
AppendOpFailedCounted(d) == [d EXCEPT !.pending_op_count = @ + 1]

(* Document::append_op returning Err from open, writeln or flush: the
   function returns before "self.pending_op_count += 1" *)
AppendOpFailed(d) == d

(* save_op when append_op fails: "doc.append_op(&op)?" returns the error
   before the operation is applied and before the threshold check *)
SaveOpFails(m, op) ==
    /\ doc[m] # None
    /\ doc' = [doc EXCEPT ![m] = Some(AppendOpFailed(Unwrap(doc[m])))]
    /\ result' = [result EXCEPT ![m] = Returned("save_op", "err")]
    /\ UNCHANGED <<disk, dirty, fresh, seen, lastCompact, saves, modified,
                   elapsed, removed, applyVars, extVars>>

(* Document::has_external_changes: state.json or a pending file has a
   modification time later than last_load_time *)
HasExternalChanges(m) ==
    \/ disk[m][StatePath] # None /\ StatePath \in modified[m]
    \/ \E f \in PendingNames : disk[m][f] # None /\ f \in modified[m]

(* check_for_changes *)
CheckForChanges(m) ==
    /\ doc[m] # None
    /\ result' = [result EXCEPT
                    ![m] = Returned("check_for_changes",
                                    IF HasExternalChanges(m)
                                    THEN "true" ELSE "false")]
    /\ UNCHANGED <<storeVars, modified, elapsed, removed, applyVars, extVars>>

(* variant of ReloadDoc that keeps the pending operation count it had *)
ReloadDocKeepCount(d, dir, order) ==
    [state |-> Load(dir, order).state,
     pending_op_count |-> d.pending_op_count]

(* Document::reload: state and pending_op_count are taken from a
   Document::load of the same directory *)
ReloadDoc(d, dir, order) ==
    LET new_doc == Load(dir, order) IN
    [state |-> new_doc.state,
     pending_op_count |-> new_doc.pending_op_count]

(* reload_if_changed: Document::reload when has_external_changes, nothing
   otherwise *)
ReloadIfChanged(m) ==
    /\ doc[m] # None
    /\ IF ~HasExternalChanges(m)
       THEN /\ result' = [result EXCEPT
                            ![m] = Returned("reload_if_changed", "none")]
            /\ UNCHANGED <<doc, fresh, seen, modified, elapsed, removed>>
       ELSE IF LoadFails(disk[m])
       THEN /\ doc' = [doc EXCEPT ![m] = LoadFailed(@)]
            /\ result' = [result EXCEPT
                            ![m] = Returned("reload_if_changed", "err")]
            /\ UNCHANGED <<fresh, seen, modified, elapsed, removed>>
       ELSE /\ \E order \in ReadDirOrders :
                 doc' = [doc EXCEPT
                           ![m] = Some(ReloadDoc(Unwrap(doc[m]), disk[m],
                                                 order))]
            /\ fresh' = [fresh EXCEPT ![m] = TRUE]
            /\ seen' = [seen EXCEPT ![m] = disk[m]]
            /\ result' = [result EXCEPT
                            ![m] = Returned("reload_if_changed", "some")]
            /\ StampLoadTime(m)
            /\ removed' = removed
    /\ UNCHANGED <<disk, dirty, lastCompact, saves, applyVars, extVars>>

(* the clock of machine m moves past the document's last_load_time *)
Tick(m) ==
    /\ doc[m] # None
    /\ ~elapsed[m]
    /\ elapsed' = [elapsed EXCEPT ![m] = TRUE]
    /\ UNCHANGED <<storeVars, result, modified, removed, applyVars, extVars>>

(* import_nodes_to_document: the NodeChanges built from a node's metadata *)
ImportChanges(node) ==
    [NoChanges EXCEPT
       !.note = node.note,
       !.heading_level = node.heading_level,
       !.is_checked = IF node.is_checked THEN Some(TRUE) ELSE None,
       !.color = node.color,
       !.tags = IF node.tags = <<>> THEN None ELSE Some(node.tags),
       !.date = node.date,
       !.date_recurrence = node.date_recurrence,
       !.collapsed = IF node.collapsed THEN Some(TRUE) ELSE None,
       !.mirror_source_id = node.mirror_source_id]

(* import_nodes_to_document: has_changes *)
HasChanges(changes) ==
    \E k \in {"note", "heading_level", "is_checked", "color", "tags", "date",
               "date_recurrence", "collapsed", "mirror_source_id"} :
        IsSome(changes[k])

(* import_nodes_to_document: the operations appended and applied, in order;
   update_op stamps the Update with the clock, now *)
RECURSIVE ImportOps(_, _)
ImportOps(nodes, now) ==
    IF nodes = <<>>
    THEN <<>>
    ELSE LET node == Head(nodes)
             create_op == CreateOp(node.id, node.parent_id, node.position,
                                   node.content, node.node_type,
                                   node.updated_at)
             changes == ImportChanges(node)
         IN <<create_op>>
            \o (IF HasChanges(changes)
                THEN <<UpdateOp(node.id, changes, now)>>
                ELSE <<>>)
            \o ImportOps(Tail(nodes), now)

(* the directory after append_op of each operation in turn *)
RECURSIVE AppendLines(_, _, _)
AppendLines(dir, name, ops) ==
    IF ops = <<>>
    THEN dir
    ELSE AppendLines(AppendLine(dir, name,
                                PendingLine(Head(ops), LineBytes(Head(ops)))),
                     name, Tail(ops))

(* the node lists parse_opml / parse_json_backup hand to the import: one
   node without metadata, or one with a note and a checked box *)
ImportedNodeLists ==
    {<<CreatedNode(CreateOp(2, None, 0, "i", NodeTypeDefault, t))>> :
        t \in StoreTimes}
    \cup {<<[CreatedNode(CreateOp(2, None, 0, "i", "checkbox", t))
               EXCEPT !.note = Some("n"), !.is_checked = TRUE]>> :
            t \in StoreTimes}

(* import_opml / import_json: import_nodes_to_document appends and applies
   each operation; no threshold check follows *)
ImportNodes(m, nodes, now) ==
    LET own == PendingPath(Hostname(m))
        ops == ImportOps(nodes, now)
    IN /\ doc[m] # None
       /\ saves + Len(ops) <= MaxSaves
       /\ disk' = [disk EXCEPT ![m] = AppendLines(@, own, ops)]
       /\ doc' = [doc EXCEPT
                    ![m] = Some([state |-> ApplyAll(ops, Unwrap(@).state),
                                 pending_op_count |->
                                    Unwrap(@).pending_op_count + Len(ops)])]
       /\ seen' = [seen EXCEPT ![m] = AppendLines(@, own, ops)]
       /\ dirty' = [dirty EXCEPT ![m] = @ \cup {own}]
       /\ lastCompact' = [lastCompact EXCEPT ![m] = None]
       /\ fresh' = [fresh EXCEPT ![m] = FALSE]
       /\ saves' = saves + Len(ops)
       /\ result' = [result EXCEPT ![m] = Returned("import", "ok")]
       /\ TouchFile(m, own)
       /\ elapsed' = elapsed
       /\ removed' = removed
       /\ UNCHANGED <<applyVars, extVars>>

(* the sync agent replaces file f of machine m's directory by content (None
   removes the file) *)
SyncWrite(m, f, content) ==
    /\ disk[m][f] # content
    /\ disk' = [disk EXCEPT ![m][f] = content]
    /\ fresh' = [fresh EXCEPT ![m] = FALSE]
    /\ lastCompact' = [lastCompact EXCEPT ![m] = None]
    /\ modified' = [modified EXCEPT
                      ![m] = IF content = None THEN @ \ {f}
                             ELSE IF elapsed[m] THEN @ \cup {f} ELSE @]
    /\ UNCHANGED <<doc, seen, result, elapsed, removed, applyVars, extVars>>

(* the sync agent creates or extends the pending file of the other machine
   with a line written there *)
SyncAppend(op) ==
    /\ saves < MaxSaves
    /\ saves' = saves + 1
    /\ LET f == PendingPath(Hostname(Remote)) IN
       SyncWrite(Local, f,
                 AppendLine(disk[Local], f,
                            PendingLine(op, LineBytes(op)))[f])
    /\ UNCHANGED dirty

(* the sync agent removes a pending file that another machine's compaction
   removed *)
SyncRemove(f) ==
    /\ IsPendingName(f)
    /\ SyncWrite(Local, f, None)
    /\ dirty' = [dirty EXCEPT ![Local] = @ \ {f}]
    /\ UNCHANGED saves

(* the sync agent delivers the snapshot another machine's compaction wrote *)
SyncSnapshot(json) ==
    /\ SyncWrite(Local, StatePath, Some(json))
    /\ dirty' = [dirty EXCEPT ![Local] = @ \ {StatePath}]
    /\ UNCHANGED saves

(* the document this machine holds after AutoCompactOps - 1 saves whose
   lines another machine has since compacted away: the sync agent brought
   that machine's snapshot and the removal of the pending file.  The
   snapshot is a file this machine has not read, and the lines it wrote are
   gone, so seen holds no file *)
ThresholdSeed ==
    ApplyAll(<<CreateOp(1, None, 0, "a", NodeTypeDefault, 1)>>, EmptyState)

InitNearThreshold ==
    LET dir == [f \in FileNames |->
                  IF f = StatePath THEN Some(StateToJson(ThresholdSeed))
                  ELSE None]
        idle == [f \in FileNames |-> None]
    IN /\ disk = [m \in Machines |-> IF m = Local THEN dir ELSE idle]
       /\ doc = [m \in Machines |->
                  IF m = Local
                  THEN Some([state |-> ThresholdSeed,
                             pending_op_count |-> AutoCompactOps - 1])
                  ELSE None]
       /\ dirty = [m \in Machines |-> {}]
       /\ fresh = [m \in Machines |-> FALSE]
       /\ seen = [m \in Machines |-> idle]
       /\ lastCompact = [m \in Machines |-> None]
       /\ saves = 0
       /\ result = [m \in Machines |->
                     IF m = Local THEN Returned("save_op", "ok")
                     ELSE NoResult]
       /\ modified = [m \in Machines |->
                       IF m = Local THEN {StatePath} ELSE {}]
       /\ elapsed = [m \in Machines |-> m = Local]
       /\ removed = [m \in Machines |-> {}]
       /\ ExtIdle
       /\ st0 = EmptyState /\ log = <<>> /\ pre = EmptyState
       /\ st = EmptyState

Init == InitUnloaded \/ InitNearThreshold

Next ==
    \/ LoadDocument(Local)
    \/ Reload(Local)
    \/ \E op \in StoreOps : SaveOp(Local, op)
    \/ \E op \in StoreOps : SaveOpFails(Local, op)
    \/ \E nodes \in ImportedNodeLists : \E now \in StoreTimes :
          ImportNodes(Local, nodes, now)
    \/ CompactDocument(Local)
    \/ CheckForChanges(Local)
    \/ ReloadIfChanged(Local)
    \/ Tick(Local)
    \/ \E op \in RemoteOps : SyncAppend(op)
    \/ \E f \in FileNames : SyncRemove(f)
    \/ \E json \in RemoteSnapshots : SyncSnapshot(json)

Spec == Init /\ [][Next]_vars

(***************************************************************************)
(* SpecSync: machines A and B both run the application; the sync agent     *)
(* copies each changed file, or its removal, to the other machine.         *)
(***************************************************************************)
(* the document both machines start from: one node, or none *)
SyncSeed == ApplyAll(<<CreateOp(1, None, 0, "a", NodeTypeDefault, 1)>>,
                     EmptyState)

InitialSyncDirs ==
    {[f \in FileNames |->
        IF f = StatePath THEN Some(StateToJson(state)) ELSE None] :
        state \in {EmptyState, SyncSeed}}

(* the operations saved on either machine *)
SyncOps ==
    {UpdateOp(1, [NoChanges EXCEPT !.content = Some("b")], MaxStoreTime),
     UpdateOp(1, [NoChanges EXCEPT !.content = Some("c")], MaxStoreTime),
     DeleteOp(1, MaxStoreTime)}

InitSync ==
    /\ \E dir \in InitialSyncDirs : disk = [m \in Machines |-> dir]
    /\ doc = [m \in Machines |-> None]
    /\ dirty = [m \in Machines |-> {}]
    /\ fresh = [m \in Machines |-> FALSE]
    /\ seen = [m \in Machines |-> [f \in FileNames |-> None]]
    /\ lastCompact = [m \in Machines |-> None]
    /\ saves = 0
    /\ CmdIdle
    /\ ExtIdle
    /\ st0 = EmptyState /\ log = <<>> /\ pre = EmptyState /\ st = EmptyState

(* the sync agent delivers machine m's version of file f (its content or
   its removal) to the other machine, replacing the version there *)
SyncDeliver(m, f) ==
    /\ f \in dirty[m]
    /\ SyncWrite(Other(m), f, disk[m][f])
    /\ dirty' = [k \in Machines |-> dirty[k] \ {f}]
    /\ UNCHANGED saves

(* the sync agent finds both versions of file f equal *)
SyncSettle(m, f) ==
    /\ f \in dirty[m]
    /\ disk[Other(m)][f] = disk[m][f]
    /\ dirty' = [k \in Machines |-> dirty[k] \ {f}]
    /\ UNCHANGED <<disk, doc, fresh, seen, lastCompact, saves, cmdVars,
                   applyVars, extVars>>

NextSync ==
    \E m \in Machines :
        \/ LoadDocument(m)
        \/ Reload(m)
        \/ \E op \in SyncOps : SaveOp(m, op)
        \/ CompactDocument(m)
        \/ \E f \in FileNames : SyncDeliver(m, f)
        \/ \E f \in FileNames : SyncSettle(m, f)

SpecSync == InitSync /\ [][NextSync]_vars

(***************************************************************************)
(* SpecApply: operations drawn from bounded sets are applied, one after    *)
(* the other, to a starting DocumentState                                  *)
(***************************************************************************)
(* parent_id: Option<Uuid> *)
ParentChoices == {None} \cup {Some(i) : i \in NodeIds}

(* Create operations as the create_op / create_op_with_id helpers and the
   save_op command accept them *)
CreateOps ==
    {CreateOp(id, p, 0, "a", NodeTypeDefault, t) :
        id \in NodeIds, p \in ParentChoices, t \in Times}
    \cup {CreateOp(id, None, 1, "b", "checkbox", t) :
        id \in NodeIds, t \in Times}

(* sparse patches: absent fields are None *)
ChangeSets ==
    {NoChanges,
     [NoChanges EXCEPT !.content = Some("b")],
     [NoChanges EXCEPT !.content = Some("c"), !.date = Some("d")],
     [NoChanges EXCEPT !.note = Some("n")],
     [NoChanges EXCEPT !.date = Some("")],
     [NoChanges EXCEPT !.node_type = Some("heading"),
                       !.heading_level = Some(1)],
     [NoChanges EXCEPT !.node_type = Some("checkbox"),
                       !.is_checked = Some(TRUE)],
     [NoChanges EXCEPT !.color = Some("red"), !.tags = Some(<<"t">>)],
     [NoChanges EXCEPT !.date_recurrence = Some("r"),
                       !.collapsed = Some(TRUE),
                       !.mirror_source_id = Some(1)],
     [NoChanges EXCEPT !.date_recurrence = Some("")]}

UpdateOps ==
    {UpdateOp(id, c, t) : id \in NodeIds, c \in ChangeSets, t \in Times}

MoveOps ==
    {MoveOp(id, p, 1, t) : id \in NodeIds, p \in ParentChoices, t \in Times}

DeleteOps == {DeleteOp(id, t) : id \in NodeIds, t \in Times}

Ops == CreateOps \cup UpdateOps \cup MoveOps \cup DeleteOps

(* starting states: each is the result of applying operations to the empty
   state *)
SeedLogs ==
    {<<>>,
     <<CreateOp(1, None, 0, "a", NodeTypeDefault, 1)>>,
     <<CreateOp(2, None, 0, "a", NodeTypeDefault, 1),
       CreateOp(1, Some(2), 0, "a", NodeTypeDefault, 2),
       UpdateOp(1, [NoChanges EXCEPT !.note = Some("m"),
                                     !.date = Some("e")], 2)>>}

SeedStates == {ApplyAll(l, EmptyState) : l \in SeedLogs}

InitApply ==
    /\ st0 \in SeedStates
    /\ log = <<>>
    /\ pre = st0
    /\ st = st0
    /\ StoreIdle

ApplyStep(op) ==
    /\ Len(log) < MaxLog
    /\ log' = Append(log, op)
    /\ pre' = st
    /\ st' = Apply(op, st)
    /\ UNCHANGED <<st0, storeVars, cmdVars, extVars>>

DoCreate == \E op \in CreateOps : ApplyStep(op)
DoUpdate == \E op \in UpdateOps : ApplyStep(op)
DoMove == \E op \in MoveOps : ApplyStep(op)
DoDelete == \E op \in DeleteOps : ApplyStep(op)

NextApply == DoCreate \/ DoUpdate \/ DoMove \/ DoDelete

SpecApply == InitApply /\ [][NextApply]_vars

(***************************************************************************)
(* Properties of the document store (Spec, SpecSync)                       *)
(***************************************************************************)
DistinctTimes(ops) ==
    \A i, j \in 1..Len(ops) :
        i # j => ops[i].updated_at # ops[j].updated_at

NonDecreasing(ops) ==
    \A i \in 1..(Len(ops) - 1) : ops[i].updated_at <= ops[i + 1].updated_at

(* the operations of a set, earliest updated_at first *)
RECURSIVE Ascending(_)
Ascending(S) ==
    IF S = {}
    THEN <<>>
    ELSE LET first == CHOOSE o \in S : \A q \in S : o.updated_at <= q.updated_at
         IN <<first>> \o Ascending(S \ {first})

Rearrangements(ops) ==
    {[i \in 1..Len(ops) |-> ops[perm[i]]] :
        perm \in {f \in [1..Len(ops) -> 1..Len(ops)] :
                    \A k \in 1..Len(ops) : \E i \in 1..Len(ops) : f[i] = k}}

(* C1: the document a load returns holds the state reached from state.json
   (the empty state without it) by applying the operations of all pending
   files in ascending updated_at order; with pairwise distinct updated_at
   that state is a function of the set of operations alone, wherever they
   sit in the files; pending_op_count is the number of operations read *)
LoadReplaysAscending ==
    fresh[Local] =>
        LET d == Unwrap(doc[Local])
            ops == AllPendingOps(disk[Local])
            base == BaseState(disk[Local])
        IN /\ d.pending_op_count = Len(ops)
           /\ \E sorted \in Rearrangements(ops) :
                /\ NonDecreasing(sorted)
                /\ d.state = ApplyAll(sorted, base)
           /\ DistinctTimes(ops) =>
                d.state = ApplyAll(Ascending(SeqToSet(ops)), base)

(* C1 witness: a pending file holds a Delete of node 1 on a line before the
   older Create of node 1, and the loaded state has no node *)
LoadReplaysAscendingWitness ==
    /\ fresh[Local]
    /\ BaseState(disk[Local]) = EmptyState
    /\ disk[Local][PendingPath(Hostname(Remote))] = None
    /\ ParsedLines(disk[Local], PendingPath(Hostname(Local)))
         = <<DeleteOp(1, 2), CreateOp(1, None, 0, "a", NodeTypeDefault, 1)>>
    /\ Unwrap(doc[Local]).state = EmptyState
    /\ Unwrap(doc[Local]).pending_op_count = 2

(* C2: when the two machines hold the same files, no file change is
   outstanding and both have loaded since the last change, they hold the
   same document state *)
Converged ==
    ( /\ disk["A"] = disk["B"]
      /\ dirty["A"] = {} /\ dirty["B"] = {}
      /\ fresh["A"] /\ fresh["B"] )
    => Unwrap(doc["A"]).state = Unwrap(doc["B"]).state

(* C3: a compaction removes no operation from disk that is not incorporated
   in the state.json it writes *)
CompactKeepsUnincorporated ==
    lastCompact[Local] # None
    => Unwrap(lastCompact[Local]).unapplied = {}

(* C4: after a compaction, a load of the directory yields the nodes of the
   in-memory state the compaction wrote, and finds no pending operation *)
CompactThenLoad ==
    lastCompact[Local] # None
    => \A order \in ReadDirOrders :
         /\ Load(disk[Local], order).state.nodes
              = Unwrap(lastCompact[Local]).written.nodes
         /\ Load(disk[Local], order).pending_op_count = 0

(* C4 witness: a document holding a checkbox node with a note and a tag
   was compacted and loaded again *)
CompactThenLoadWitness ==
    /\ lastCompact[Local] # None
    /\ fresh[Local]
    /\ Len(Unwrap(doc[Local]).state.nodes) = 1
    /\ Unwrap(doc[Local]).state.nodes[1].node_type = "checkbox"
    /\ Unwrap(doc[Local]).state.nodes[1].note = Some("n")
    /\ Unwrap(doc[Local]).state.nodes[1].tags = <<"t">>
    /\ Unwrap(lastCompact[Local]).ops # <<>>

(* C5: the state a compaction writes equals the replay in ascending
   updated_at order, on the previous state.json, of the operations held by
   the pending files at that moment, when the machine has loaded or written
   everything in the directory *)
CompactWritesSortedReplay ==
    ( /\ lastCompact[Local] # None
      /\ ~Unwrap(lastCompact[Local]).external
      /\ DistinctTimes(Unwrap(lastCompact[Local]).ops) )
    => Unwrap(lastCompact[Local]).written
         = ApplyAll(Ascending(SeqToSet(Unwrap(lastCompact[Local]).ops)),
                    Unwrap(lastCompact[Local]).base)

(***************************************************************************)
(* Properties of Operation::apply (SpecApply)                              *)
(***************************************************************************)
LastOp == log[Len(log)]

IsSorted(ops) ==
    \A i \in 1..(Len(ops) - 1) : ops[i].updated_at <= ops[i + 1].updated_at

ChangeFields == DOMAIN NoChanges

(* C6: an Update changes its target node only when op.updated_at is strictly
   greater than the node's updated_at; otherwise (equal, smaller, or node
   missing) the whole state is unchanged; an accepted Update leaves every
   other node alone and sets the node's updated_at to op.updated_at *)
UpdateIsStrictLww ==
    (log # <<>> /\ LastOp.op = "update") =>
        LET i == FindNode(pre, LastOp.id) IN
        IF i # 0 /\ LastOp.updated_at > pre.nodes[i].updated_at
        THEN /\ Len(st.nodes) = Len(pre.nodes)
             /\ \A j \in 1..Len(pre.nodes) :
                    j # i => st.nodes[j] = pre.nodes[j]
             /\ st.nodes[i].id = LastOp.id
             /\ st.nodes[i].updated_at = LastOp.updated_at
        ELSE st = pre

(* C6 witness: an Update with an equal timestamp was rejected right after
   an Update with a newer timestamp was accepted on the same node *)
UpdateIsStrictLwwWitness ==
    /\ Len(log) = 2
    /\ log[1].op = "update" /\ log[2].op = "update"
    /\ log[1].id = log[2].id
    /\ log[1].updated_at = log[2].updated_at
    /\ log[2].changes.content = Some("b")
    /\ pre # st0
    /\ st = pre
    /\ st.nodes[FindNode(st, log[2].id)].content # "b"

(* C7 as stated: two Updates on the same node with u1.updated_at <
   u2.updated_at give the same state in either order *)
UpdateCommutes ==
    ( /\ Len(log) = 2
      /\ log[1].op = "update" /\ log[2].op = "update"
      /\ log[1].id = log[2].id
      /\ log[1].updated_at < log[2].updated_at )
    => st = Apply(log[1], Apply(log[2], st0))

(* C8 as stated: of two Updates/Moves on the same node with equal
   updated_at (newer than the node), the later one in sorted order
   determines the final value of every field both of them set *)
TieLaterWins ==
    ( /\ Len(log) >= 2
      /\ IsSorted(log) )
    => \A i, j \in 1..Len(log) :
        ( /\ i < j
          /\ log[i].id = log[j].id
          /\ log[i].updated_at = log[j].updated_at
          /\ NodeExists(st0, log[j].id)
          /\ st0.nodes[FindNode(st0, log[j].id)].updated_at
                < log[j].updated_at
          /\ NodeExists(st, log[j].id) )
        => LET n == st.nodes[FindNode(st, log[j].id)] IN
           /\ (log[i].op = "update" /\ log[j].op = "update") =>
                \A f \in ChangeFields :
                    (IsSome(log[i].changes[f]) /\ IsSome(log[j].changes[f]))
                    => PatchNode(n, log[j].changes, n.updated_at)[f] = n[f]
           /\ (log[i].op = "move" /\ log[j].op = "move") =>
                /\ n.parent_id = log[j].parent_id
                /\ n.position = log[j].position

(* C8 amended: in a replay in sorted order, an Update or Move that follows
   an Update or Move on the same node with the same updated_at is a no-op *)
TieLaterIsNoOp ==
    ( /\ Len(log) >= 2
      /\ IsSorted(log)
      /\ LastOp.op \in {"update", "move"}
      /\ \E i \in 1..(Len(log) - 1) :
            /\ log[i].op \in {"update", "move"}
            /\ log[i].id = LastOp.id
            /\ log[i].updated_at = LastOp.updated_at )
    => st = pre

(* C8 witness: two tied Updates setting different contents were replayed,
   the first was accepted and its content is the final one *)
TieLaterIsNoOpWitness ==
    /\ Len(log) = 2
    /\ log[1].op = "update" /\ log[2].op = "update"
    /\ log[1].id = log[2].id
    /\ log[1].updated_at = log[2].updated_at
    /\ log[1].changes.content = Some("b")
    /\ log[2].changes.content = Some("c")
    /\ NodeExists(st, log[1].id)
    /\ st.nodes[FindNode(st, log[1].id)].content = "b"
    /\ st.nodes[FindNode(st, log[1].id)].updated_at = log[1].updated_at

(* C9 as stated: applying a log sorted by updated_at and then applying the
   same sorted log again yields the same state as applying it once *)
ReplayIdempotent ==
    (log # <<>> /\ IsSorted(log)) => ApplyAll(SortByKey(log), st) = st

(* C10: a Create whose id exists leaves the state unchanged; otherwise
   exactly one node is appended, with the operation's id, parent_id,
   position, content and node_type, created_at = updated_at =
   op.updated_at, and every optional field at its default *)
CreateIdempotent ==
    (log # <<>> /\ LastOp.op = "create") =>
        IF \E i \in 1..Len(pre.nodes) : pre.nodes[i].id = LastOp.id
        THEN st = pre
        ELSE /\ Len(st.nodes) = Len(pre.nodes) + 1
             /\ SubSeq(st.nodes, 1, Len(pre.nodes)) = pre.nodes
             /\ LET n == st.nodes[Len(st.nodes)] IN
                /\ n.id = LastOp.id
                /\ n.parent_id = LastOp.parent_id
                /\ n.position = LastOp.position
                /\ n.content = LastOp.content
                /\ n.node_type = LastOp.node_type
                /\ n.created_at = LastOp.updated_at
                /\ n.updated_at = LastOp.updated_at
                /\ n.note = None /\ n.heading_level = None
                /\ n.is_checked = FALSE /\ n.color = None
                /\ n.tags = <<>> /\ n.date = None
                /\ n.date_recurrence = None /\ n.collapsed = FALSE
                /\ n.mirror_source_id = None

(* C10 witness: a Create with another content, parent, position and
   timestamp was applied to a state holding a modified node of that id *)
CreateIdempotentWitness ==
    /\ Len(log) = 2
    /\ log[1].op = "update" /\ log[2].op = "create"
    /\ log[1].id = log[2].id
    /\ pre # st0
    /\ NodeExists(pre, log[2].id)
    /\ LET n == pre.nodes[FindNode(pre, log[2].id)] IN
       /\ n.content # log[2].content
       /\ n.position # log[2].position
       /\ n.updated_at # log[2].updated_at
    /\ st = pre

(* whether following parent_id links from node n of nodes leads to id x;
   fuel bounds the walk, which may run along a cycle *)
RECURSIVE ChainReaches(_, _, _, _)
ChainReaches(nodes, n, x, fuel) ==
    IF n.parent_id = None \/ fuel = 0
    THEN FALSE
    ELSE IF Unwrap(n.parent_id) = x
         THEN TRUE
         ELSE \E k \in 1..Len(nodes) :
                /\ nodes[k].id = Unwrap(n.parent_id)
                /\ ChainReaches(nodes, nodes[k], x, fuel - 1)

(* node n of nodes is x or a descendant of x *)
InSubtree(nodes, n, x) == n.id = x \/ ChainReaches(nodes, n, x, Len(nodes))

(* C11: right after a Delete of x the state holds neither x nor a node whose
   parent_id chain leads to x, and the nodes that were neither x nor
   descendants of x are all there, unchanged and in their order *)
DeleteCascades ==
    (log # <<>> /\ LastOp.op = "delete")
    => /\ \A k \in 1..Len(st.nodes) :
            ~InSubtree(st.nodes, st.nodes[k], LastOp.id)
       /\ st.nodes = SelectSeq(pre.nodes,
                               LAMBDA n : ~InSubtree(pre.nodes, n, LastOp.id))

(* C11 witness: a Delete removed a node together with its child and kept
   nothing of the subtree *)
DeleteCascadesWitness ==
    /\ log # <<>> /\ LastOp.op = "delete"
    /\ \E i, j \in 1..Len(pre.nodes) :
          /\ pre.nodes[i].id = LastOp.id
          /\ pre.nodes[j].parent_id = Some(LastOp.id)
          /\ ~NodeExists(st, pre.nodes[j].id)
    /\ ~NodeExists(st, LastOp.id)
    /\ Len(st.nodes) = Len(pre.nodes) - 2

(* C12: the effect of a Delete does not depend on its updated_at: every
   timestamp gives the state the Delete gave, so x and its descendants go
   even when they are as new as or newer than the Delete *)
DeleteIgnoresTime ==
    (log # <<>> /\ LastOp.op = "delete")
    => /\ \A t \in Times : Apply(DeleteOp(LastOp.id, t), pre) = st
       /\ \A k \in 1..Len(pre.nodes) :
            ( /\ InSubtree(pre.nodes, pre.nodes[k], LastOp.id)
              /\ pre.nodes[k].updated_at >= LastOp.updated_at )
            => ~NodeExists(st, pre.nodes[k].id)

(* C12 witness: a Delete older than its target and than the target's child
   removed both *)
DeleteIgnoresTimeWitness ==
    /\ log # <<>> /\ LastOp.op = "delete"
    /\ \E i, j \in 1..Len(pre.nodes) :
          /\ pre.nodes[i].id = LastOp.id
          /\ pre.nodes[i].updated_at >= LastOp.updated_at
          /\ pre.nodes[j].parent_id = Some(LastOp.id)
          /\ pre.nodes[j].updated_at > LastOp.updated_at
          /\ ~NodeExists(st, pre.nodes[i].id)
          /\ ~NodeExists(st, pre.nodes[j].id)

(* C13: an Update, Move or Delete whose id is absent from the state leaves
   the state as it was *)
AbsentIdIsNoOp ==
    ( /\ log # <<>>
      /\ LastOp.op \in {"update", "move", "delete"}
      /\ ~NodeExists(pre, LastOp.id) )
    => st = pre

(* C13 amended: an Update or Move whose id is absent leaves the state as it
   was; a Delete whose id is absent removes exactly the nodes whose
   parent_id chain leads to that id, and nothing when there is none *)
AbsentIdUpdateMoveNoOp ==
    ( /\ log # <<>>
      /\ ~NodeExists(pre, LastOp.id) )
    => /\ LastOp.op \in {"update", "move"} => st = pre
       /\ LastOp.op = "delete" =>
            /\ st.nodes = SelectSeq(pre.nodes,
                    LAMBDA n : ~ChainReaches(pre.nodes, n, LastOp.id,
                                             Len(pre.nodes)))
            /\ (\A k \in 1..Len(pre.nodes) :
                    ~ChainReaches(pre.nodes, pre.nodes[k], LastOp.id,
                                  Len(pre.nodes)))
               => st = pre

(* C13 witness: an Update on an id that a Delete had just removed changed
   nothing *)
AbsentIdUpdateMoveNoOpWitness ==
    /\ Len(log) = 2
    /\ log[1].op = "delete" /\ log[2].op = "update"
    /\ log[1].id = log[2].id
    /\ NodeExists(st0, log[1].id)
    /\ ~NodeExists(pre, log[2].id)
    /\ log[2].changes.content = Some("b")
    /\ st = pre

(* C15: a node that is in the state before and after an operation has an
   updated_at at least as large after as before; it differs only when the
   operation is an Update or Move on that node with a strictly larger
   updated_at, which becomes the node's *)
TimestampMonotone ==
    log # <<>> =>
    \A i \in 1..Len(pre.nodes) : \A j \in 1..Len(st.nodes) :
        pre.nodes[i].id = st.nodes[j].id
        => /\ st.nodes[j].updated_at >= pre.nodes[i].updated_at
           /\ st.nodes[j].updated_at # pre.nodes[i].updated_at
              => /\ LastOp.op \in {"update", "move"}
                 /\ LastOp.id = st.nodes[j].id
                 /\ LastOp.updated_at > pre.nodes[i].updated_at
                 /\ st.nodes[j].updated_at = LastOp.updated_at

(* C15 witness: a Move raised the updated_at of its node after an older
   Update had left it alone *)
TimestampMonotoneWitness ==
    /\ Len(log) = 2
    /\ log[1].op = "update" /\ log[2].op = "move"
    /\ log[1].id = log[2].id
    /\ NodeExists(st0, log[1].id)
    /\ pre = st0
    /\ st0.nodes[FindNode(st0, log[1].id)].updated_at >= log[1].updated_at
    /\ st.nodes[FindNode(st, log[2].id)].updated_at = log[2].updated_at
    /\ log[2].updated_at > st0.nodes[FindNode(st0, log[1].id)].updated_at

(* ------------------------------------------------------------------ *)
(* SpecLoad: loads of a directory in which a pending line may not parse *)
(* ------------------------------------------------------------------ *)

(* a line cut short: its text is not the JSON of an Operation *)
TruncatedLine == [json |-> [truncated |-> TRUE], bytes |-> SmallLine]

(* the sync agent delivers another machine's pending file with a line cut
   short at its end *)
SyncTruncated ==
    /\ saves < MaxSaves
    /\ saves' = saves + 1
    /\ LET f == PendingPath(Hostname(Remote)) IN
       SyncWrite(Local, f, AppendLine(disk[Local], f, TruncatedLine)[f])
    /\ UNCHANGED dirty

NextLoad ==
    \/ LoadDocument(Local)
    \/ Reload(Local)
    \/ ReloadIfChanged(Local)
    \/ Tick(Local)
    \/ \E op \in RemoteOps : SyncAppend(op)
    \/ SyncTruncated
    \/ \E f \in PendingNames : SyncRemove(f)

SpecLoad == InitUnloaded /\ [][NextLoad]_vars

(* ------------------------------------------------------------------ *)
(* SpecThreads: mutation commands entered by two threads               *)
(* ------------------------------------------------------------------ *)

(* create_node, update_node, move_node, delete_node: the Operation the
   helper builds, stamped with Utc::now() *)
ThreadCommands(now) ==
    {CreateOp(2, None, 0, "x", NodeTypeDefault, now),
     UpdateOp(1, [NoChanges EXCEPT !.content = Some("x")], now),
     MoveOp(1, None, 1, now),
     DeleteOp(1, now)}

InitThreads ==
    /\ StoreIdle
    /\ st0 = EmptyState /\ log = <<>> /\ pre = EmptyState /\ st = EmptyState

(* the wall clock advances *)
ClockTick ==
    /\ clock < MaxClock
    /\ clock' = clock + 1
    /\ UNCHANGED <<tpc, top, pfile, applied, notThreadVars>>

(* first half of a mutation command on thread t: create_op, update_op,
   move_op or delete_op reads the clock and builds the Operation; the
   document lock is not held yet *)
BuildOp(t) ==
    /\ tpc[t] = "idle"
    /\ Len(pfile) + Cardinality({u \in Threads : tpc[u] = "built"})
         < MaxCalls
    /\ \E op \in ThreadCommands(clock) :
          top' = [top EXCEPT ![t] = Some(op)]
    /\ tpc' = [tpc EXCEPT ![t] = "built"]
    /\ UNCHANGED <<clock, pfile, applied, notThreadVars>>

(* second half: save_op takes the document lock, appends the Operation to
   the pending file and applies it, then releases the lock *)
SaveBuiltOp(t) ==
    /\ tpc[t] = "built"
    /\ pfile' = Append(pfile, Unwrap(top[t]))
    /\ applied' = Append(applied, Unwrap(top[t]))
    /\ tpc' = [tpc EXCEPT ![t] = "idle"]
    /\ top' = [top EXCEPT ![t] = None]
    /\ UNCHANGED <<clock, notThreadVars>>

NextThreads ==
    \/ ClockTick
    \/ \E t \in Threads : BuildOp(t)
    \/ \E t \in Threads : SaveBuiltOp(t)

SpecThreads == InitThreads /\ [][NextThreads]_vars

(* ------------------------------------------------------------------ *)
(* SpecExport: OPML and Markdown export, OPML import, document listing  *)
(* ------------------------------------------------------------------ *)

(* contents of the exported nodes: plain text, HTML, highlight syntax *)
ExportContents == <<"a", "<b>b</b>", "==c==">>

(* strip_html: tags removed, entities decoded, trimmed *)
StripHtml(html) ==
    CASE html = "<b>b</b>" -> "b"
      [] OTHER -> html

(* strip_html_for_title *)
StripHtmlForTitle(html) ==
    CASE html = "<b>b</b>" -> "b"
      [] OTHER -> html

(* html_to_markdown: <b> and </b> become ** *)
HtmlToMarkdown(html) ==
    CASE html = "<b>b</b>" -> "**b**"
      [] OTHER -> html

(* convert_dynalist_syntax: ==x== becomes <mark>x</mark> *)
ConvertDynalistSyntax(text) ==
    CASE text = "==c==" -> "<mark>c</mark>"
      [] OTHER -> text

(* process_dynalist_content: no text of ExportContents holds a !(date) *)
ProcessDynalistContent(text) ==
    [text |-> ConvertDynalistSyntax(text), date |-> None,
     date_recurrence |-> None]

(* children.sort_by_key(|n| n.position): a stable sort, so nodes with
   equal position keep the order they have in the node sequence *)
RECURSIVE InsertByPosition(_, _)
InsertByPosition(sorted, node) ==
    IF sorted = <<>>
    THEN <<node>>
    ELSE IF Head(sorted).position <= node.position
         THEN <<Head(sorted)>> \o InsertByPosition(Tail(sorted), node)
         ELSE <<node>> \o sorted

RECURSIVE SortByPosition(_)
SortByPosition(children) ==
    IF children = <<>>
    THEN <<>>
    ELSE InsertByPosition(
             SortByPosition(SubSeq(children, 1, Len(children) - 1)),
             children[Len(children)])

(* nodes.iter().filter(|n| n.parent_id == parent_id), then the sort *)
SortedChildren(nodes, parent_id) ==
    SortByPosition(SelectSeq(nodes, LAMBDA n : n.parent_id = parent_id))

(* write_opml_nodes: one outline element per child, with text and _note
   attributes, holding the outlines of its own children *)
RECURSIVE WriteOpmlNodes(_, _)
WriteOpmlNodes(nodes, parent_id) ==
    LET children == SortedChildren(nodes, parent_id) IN
    [i \in 1..Len(children) |->
        [text |-> StripHtml(children[i].content),
         note |-> children[i].note,
         outlines |-> WriteOpmlNodes(nodes, Some(children[i].id))]]

(* generate_opml: the body of the document *)
GenerateOpml(nodes) == WriteOpmlNodes(nodes, None)

(* write_markdown_nodes: one line per node, indented by depth *)
RECURSIVE WriteMarkdownNodes(_, _, _)
WriteMarkdownNodes(nodes, parent_id, depth) ==
    LET children == SortedChildren(nodes, parent_id)
        Line(node) ==
            [indent |-> depth,
             bullet |-> IF node.is_checked THEN "- [x]"
                        ELSE IF node.node_type = "checkbox" THEN "- [ ]"
                        ELSE "-",
             text |-> HtmlToMarkdown(node.content),
             date |-> node.date,
             note |-> node.note]
        RECURSIVE Lines(_)
        Lines(i) ==
            IF i > Len(children)
            THEN <<>>
            ELSE <<Line(children[i])>>
                 \o WriteMarkdownNodes(nodes, Some(children[i].id),
                                       depth + 1)
                 \o Lines(i + 1)
    IN Lines(1)

(* generate_markdown *)
GenerateMarkdown(nodes) == WriteMarkdownNodes(nodes, None, 0)

(* list_documents: first_root is min_by_key(position) over the roots in
   sequence order, which returns the first of several minimal elements *)
FirstRoot(nodes) ==
    LET roots == SelectSeq(nodes, LAMBDA n : n.parent_id = None) IN
    IF roots = <<>>
    THEN None
    ELSE Some(roots[CHOOSE i \in 1..Len(roots) :
                      /\ \A j \in 1..Len(roots) :
                            roots[i].position <= roots[j].position
                      /\ \A j \in 1..(i - 1) :
                            roots[j].position > roots[i].position])

(* list_documents: title and title_node_id of one document *)
DocumentInfo(nodes) ==
    LET first_root == FirstRoot(nodes) IN
    [title |-> IF first_root = None THEN "Untitled"
               ELSE StripHtmlForTitle(Unwrap(first_root).content),
     node_count |-> Len(nodes),
     title_node_id |-> IF first_root = None THEN None
                       ELSE Some(Unwrap(first_root).id)]

(* Uuid::now_v7() in parse_outline_element: ids no exported node has *)
NewIdBase == 10

(* parse_outline_element: the node of one outline element; its position is
   the count of the siblings parsed before it, its id is new *)
ParsedNode(outline, parent_id, position, id, now) ==
    LET processed == ProcessDynalistContent(outline.text) IN
    [id |-> id, parent_id |-> parent_id, position |-> position,
     content |-> processed.text,
     note |-> IF outline.note = None THEN None
              ELSE Some(ConvertDynalistSyntax(Unwrap(outline.note))),
     node_type |-> NodeTypeDefault, heading_level |-> None,
     is_checked |-> FALSE, color |-> None, tags |-> <<>>,
     date |-> processed.date, date_recurrence |-> processed.date_recurrence,
     collapsed |-> FALSE, mirror_source_id |-> None,
     created_at |-> now, updated_at |-> now]

(* parse_opml: the nodes of the outlines in document order; count is the
   number of nodes parsed before these outlines *)
RECURSIVE ParseOutlines(_, _, _, _)
ParseOutlines(outlines, parent_id, count, now) ==
    LET RECURSIVE Siblings(_, _)
        Siblings(i, parsed) ==
            IF i > Len(outlines)
            THEN parsed
            ELSE LET id == NewIdBase + count + Len(parsed) + 1
                     node == ParsedNode(outlines[i], parent_id, i - 1, id,
                                        now)
                     below == ParseOutlines(outlines[i].outlines, Some(id),
                                            count + Len(parsed) + 1, now)
                 IN Siblings(i + 1, parsed \o <<node>> \o below)
    IN Siblings(1, <<>>)

ParseOpml(body, now) == ParseOutlines(body, None, 0, now)

(* the node of a document authored through the commands *)
ExportNode(id, parent_id, position) ==
    [CreatedNode(CreateOp(id, parent_id, position, ExportContents[id],
                          NodeTypeDefault, 1))
       EXCEPT !.note = IF id = 2 THEN Some("n") ELSE None]

ExportPositions == {0, 2}

(* the documents: up to MaxNodes nodes, each a root or a child of a node
   with a smaller id, at free positions, in any order in the sequence *)
ExportTrees ==
    UNION {
      UNION {Rearrangements([i \in 1..k |->
                               ExportNode(i, parent[i], position[i])]) :
               parent \in {f \in [1..k -> {None} \cup {Some(j) : j \in 1..k}] :
                             \A i \in 1..k :
                               f[i] # None => Unwrap(f[i]) < i},
               position \in [1..k -> ExportPositions]} :
      k \in 1..MaxNodes}

InitExport ==
    /\ InboxIdle
    /\ WalIdle
    /\ ParseIdle
    /\ tree \in ExportTrees
    /\ exported = None
    /\ ThreadIdle
    /\ WatcherIdle
    /\ IndexIdle
    /\ disk = [m \in Machines |-> [f \in FileNames |-> None]]
    /\ doc = [m \in Machines |-> None]
    /\ dirty = [m \in Machines |-> {}]
    /\ fresh = [m \in Machines |-> FALSE]
    /\ seen = [m \in Machines |-> [f \in FileNames |-> None]]
    /\ lastCompact = [m \in Machines |-> None]
    /\ saves = 0
    /\ result = [m \in Machines |-> NoResult]
    /\ modified = [m \in Machines |-> {}]
    /\ elapsed = [m \in Machines |-> FALSE]
    /\ removed = [m \in Machines |-> {}]
    /\ st0 = EmptyState /\ log = <<>> /\ pre = EmptyState /\ st = EmptyState

(* export_opml *)
ExportOpml ==
    /\ exported' = [cmd |-> "export_opml", out |-> GenerateOpml(tree)]
    /\ UNCHANGED <<tree, notExportVars>>

(* export_markdown *)
ExportMarkdown ==
    /\ exported' = [cmd |-> "export_markdown", out |-> GenerateMarkdown(tree)]
    /\ UNCHANGED <<tree, notExportVars>>

(* list_documents, for the one document whose nodes are tree *)
ListDocuments ==
    /\ exported' = [cmd |-> "list_documents", out |-> DocumentInfo(tree)]
    /\ UNCHANGED <<tree, notExportVars>>

(* parse_opml of the text generate_opml gave for tree *)
ReimportOpml ==
    /\ \E now \in Times :
          exported' = [cmd |-> "parse_opml",
                       out |-> ParseOpml(GenerateOpml(tree), now)]
    /\ UNCHANGED <<tree, notExportVars>>

NextExport ==
    \/ ExportOpml
    \/ ExportMarkdown
    \/ ListDocuments
    \/ ReimportOpml

SpecExport == InitExport /\ [][NextExport]_vars

(* ------------------------------------------------------------------ *)
(* Properties of the commands (Spec)                                   *)
(* ------------------------------------------------------------------ *)

(* C14: node ids are never reused: an id that a Delete took out of the
   document is not the id of any node of the document afterwards, whatever
   operation, reload or load follows *)
IdsNeverReturn ==
    doc[Local] # None =>
        \A x \in removed[Local] : x \notin DocIds(doc[Local])

(* C16: a save_op whose append fails returns the error and leaves the
   in-memory state and pending_op_count, the directory and the compaction
   record exactly as they were before the call *)
FailedSaveChangesNothing ==
    [][(/\ result'[Local] = Returned("save_op", "err")
        /\ (result'[Local] # result[Local] \/ doc' # doc))
       => (/\ doc' = doc
           /\ disk' = disk
           /\ lastCompact' = lastCompact)]_vars

(* C16 witness: save_op has returned an error on a loaded document that
   holds a node and counts pending operations *)
FailedSaveChangesNothingWitness ==
    /\ result[Local] = Returned("save_op", "err")
    /\ doc[Local] # None
    /\ Unwrap(doc[Local]).state.nodes # <<>>
    /\ Unwrap(doc[Local]).pending_op_count > 0

(* C17: after a successful compact the directory holds no pending.*.jsonl
   file, of this machine or of any other, state.json holds the in-memory
   state, and pending_op_count is 0 *)
CompactLeavesOnlyState ==
    lastCompact[Local] # None
    => /\ \A f \in PendingNames : disk[Local][f] = None
       /\ disk[Local][StatePath]
            = Some(StateToJson(Unwrap(doc[Local]).state))
       /\ Unwrap(doc[Local]).pending_op_count = 0

(* C17 witness: a compaction has just run on a directory that held a
   pending operation of this machine and one of another machine, and on a
   document that holds a node *)
CompactLeavesOnlyStateWitness ==
    /\ lastCompact[Local] # None
    /\ ~fresh[Local]
    /\ \E i, j \in 1..Len(Unwrap(lastCompact[Local]).ops) :
          /\ Unwrap(lastCompact[Local]).ops[i] \in RemoteOps
          /\ Unwrap(lastCompact[Local]).ops[j] \in StoreOps
    /\ Unwrap(doc[Local]).state.nodes # <<>>

(* C18: every mutation command runs the threshold check after its appends:
   no save_op and no import returns successfully with pending_op_count at
   or above the operation-count threshold *)
MutationsCheckThreshold ==
    (/\ doc[Local] # None
     /\ result[Local].cmd \in {"save_op", "import"}
     /\ result[Local].ret = "ok")
    => Unwrap(doc[Local]).pending_op_count < AutoCompactOps

(* C19 as stated: with pending_op_count below 1000, should_auto_compact is
   true if and only if this machine's pending file holds at least 1 MiB
   (1,048,576 bytes) *)
SizeThresholdIsMiB ==
    (/\ result[Local].check # None
     /\ Unwrap(result[Local].check).count < AutoCompactOps)
    => (Unwrap(result[Local].check).compact
        <=> /\ Unwrap(result[Local].check).size # None
            /\ Unwrap(Unwrap(result[Local].check).size) >= 2^20)

(* C19: with pending_op_count below 1000, should_auto_compact is true if
   and only if this machine's pending file holds at least 1,000,000 bytes;
   a missing pending file counts as size 0 *)
SizeThreshold ==
    /\ (/\ result[Local].check # None
        /\ Unwrap(result[Local].check).count < AutoCompactOps)
       => (Unwrap(result[Local].check).compact
           <=> /\ Unwrap(result[Local].check).size # None
               /\ Unwrap(Unwrap(result[Local].check).size)
                    >= AutoCompactBytes)
    /\ (/\ doc[Local] # None
        /\ Unwrap(doc[Local]).pending_op_count < AutoCompactOps)
       => (ShouldAutoCompact(Unwrap(doc[Local]), disk[Local], Local)
           <=> /\ OwnPendingSize(disk[Local], Local) # None
               /\ Unwrap(OwnPendingSize(disk[Local], Local))
                    >= AutoCompactBytes)

(* C19 witness: save_op evaluated should_auto_compact with fewer than 1000
   pending operations and a pending file of exactly 1,000,000 bytes, and it
   was true *)
SizeThresholdWitness ==
    /\ result[Local].check # None
    /\ Unwrap(result[Local].check).count < AutoCompactOps
    /\ Unwrap(result[Local].check).size = Some(AutoCompactBytes)
    /\ Unwrap(result[Local].check).compact

(* C20: check_for_changes reports only changes from outside this process:
   when the directory is as this machine loaded and wrote it, and nothing
   but this machine's own pending file was modified since the last load or
   compact, it returns false *)
OwnWritesAreNotExternal ==
    (/\ result[Local].cmd = "check_for_changes"
     /\ disk[Local] = seen[Local]
     /\ modified[Local] \subseteq {PendingPath(Hostname(Local))})
    => result[Local].ret = "false"

(* C21: a reload is a fresh load: right after reload_if_changed has
   reloaded, the document's state and pending_op_count are those of a
   Document::load of the directory as it is, whatever the document held
   before, and last_load_time is refreshed *)
ReloadIsFreshLoad ==
    [][(/\ result'[Local] = Returned("reload_if_changed", "some")
        /\ ~fresh[Local]
        /\ fresh'[Local])
       => (/\ \E order \in ReadDirOrders :
                Unwrap(doc'[Local]) = Load(disk'[Local], order)
           /\ modified'[Local] = {}
           /\ ~elapsed'[Local])]_vars

(* C21 witness: a reload replaced an in-memory state from which a saved
   Delete had removed node 1 by the loaded state, which holds node 1 again
   because another machine's pending file creates it later *)
ReloadIsFreshLoadWitness ==
    /\ result[Local] = Returned("reload_if_changed", "some")
    /\ fresh[Local]
    /\ 1 \in removed[Local]
    /\ 1 \in DocIds(doc[Local])
    /\ disk[Local][PendingPath(Hostname(Remote))] # None
    /\ Unwrap(doc[Local]).pending_op_count = 2

(* C22: a load is all-or-nothing on parse errors: when a pending line does
   not parse, load_document and reload_if_changed return an error, no
   document is produced where none was loaded, and a loaded document keeps
   its state, its pending_op_count and its last_load_time *)
LoadIsAllOrNothing ==
    [][(/\ LoadFails(disk[Local])
        /\ result'[Local].cmd \in {"load_document", "reload_if_changed"}
        /\ result'[Local].ret # "none"
        /\ (result'[Local] # result[Local] \/ doc' # doc))
       => (/\ result'[Local].ret = "err"
           /\ doc' = doc
           /\ modified' = modified
           /\ elapsed' = elapsed)]_vars

(* C22 witness: a reload failed on a directory whose second pending line
   is cut short while the first parses, and the document still holds the
   single operation it had loaded *)
LoadIsAllOrNothingWitness ==
    /\ result[Local] = Returned("reload_if_changed", "err")
    /\ disk[Local][PendingPath(Hostname(Remote))] # None
    /\ Len(Unwrap(disk[Local][PendingPath(Hostname(Remote))])) = 2
    /\ ParsesAsOperation(
          Unwrap(disk[Local][PendingPath(Hostname(Remote))])[1].json)
    /\ Unwrap(disk[Local][PendingPath(Hostname(Remote))])[2]
          = TruncatedLine
    /\ Unwrap(doc[Local]).pending_op_count = 1
    /\ Unwrap(doc[Local]).state.nodes # <<>>

(* C23: the operations of the local pending file are in the order in which
   they were applied to the in-memory state and carry non-decreasing
   updated_at, also when two threads are inside mutation commands at once *)
PendingFileInOrder ==
    /\ pfile = applied
    /\ NonDecreasing(pfile)

(* the fields of an imported node that the import is to carry over *)
ImportedFields ==
    {"parent_id", "position", "content", "node_type", "note",
     "heading_level", "is_checked", "color", "tags", "date",
     "date_recurrence", "collapsed", "mirror_source_id"}

(* C29: an import appends for each node a Create and an Update with its
   metadata, and afterwards every imported node whose id was not in the
   document has, in the document state, the imported node's structure,
   content and metadata, whatever updated_at the imported node carries *)
ImportKeepsMetadata ==
    [][LET own == PendingPath(Hostname(Local))
           before == IF disk[Local][own] = None THEN <<>>
                     ELSE Unwrap(disk[Local][own])
       IN (/\ result'[Local] = Returned("import", "ok")
           /\ doc[Local] # None
           /\ disk'[Local][own] # None
           /\ Len(Unwrap(disk'[Local][own])) > Len(before)
           /\ SubSeq(Unwrap(disk'[Local][own]), 1, Len(before)) = before)
          => LET after == Unwrap(disk'[Local][own])
                 new == [k \in 1..(Len(after) - Len(before)) |->
                           OpFromJson(after[Len(before) + k].json)]
                 create == new[1]
                 imported == IF Len(new) = 2
                             THEN PatchNode(CreatedNode(create),
                                            new[2].changes,
                                            new[2].updated_at)
                             ELSE CreatedNode(create)
                 i == FindNode(Unwrap(doc'[Local]).state, create.id)
             IN create.id \notin DocIds(doc[Local])
                => /\ i # 0
                   /\ \A f \in ImportedFields :
                         Unwrap(doc'[Local]).state.nodes[i][f] = imported[f]
      ]_vars

(* ------------------------------------------------------------------ *)
(* Properties of export, listing and import (SpecExport)               *)
(* ------------------------------------------------------------------ *)

(* the nodes of a set, smallest id first *)
RECURSIVE ById(_)
ById(S) ==
    IF S = {}
    THEN <<>>
    ELSE LET first == CHOOSE n \in S : \A q \in S : n.id <= q.id
         IN <<first>> \o ById(S \ {first})

(* C24: every traversal lists the children of a parent by ascending
   position, ties broken by ascending id, whatever the order of the nodes
   in the node sequence: the OPML export, the Markdown export and the
   listing give what they give for the same nodes held in id order *)
SiblingsByPositionThenId ==
    exported # None =>
        LET canonical == ById(SeqToSet(tree)) IN
        /\ exported.cmd = "export_opml"
             => exported.out = GenerateOpml(canonical)
        /\ exported.cmd = "export_markdown"
             => exported.out = GenerateMarkdown(canonical)
        /\ exported.cmd = "list_documents"
             => exported.out = DocumentInfo(canonical)

(* the nodes in the order write_opml_nodes writes them: each child of the
   parent in sorted order, followed by its own descendants *)
RECURSIVE VisitOrder(_, _)
VisitOrder(nodes, parent_id) ==
    LET children == SortedChildren(nodes, parent_id)
        RECURSIVE From(_)
        From(i) ==
            IF i > Len(children)
            THEN <<>>
            ELSE <<children[i]>>
                 \o VisitOrder(nodes, Some(children[i].id))
                 \o From(i + 1)
    IN From(1)

(* the index in a node sequence of the node with the given id *)
IndexOfId(nodes, id) == CHOOSE k \in 1..Len(nodes) : nodes[k].id = id

(* C30: OPML round trip: parse_opml(generate_opml(nodes)) yields, in the
   order of the export, nodes with the same content, the same position
   values and the same parent/child structure *)
OpmlRoundTrip ==
    (exported # None /\ exported.cmd = "parse_opml") =>
        LET original == VisitOrder(tree, None)
            parsed == exported.out
        IN /\ Len(parsed) = Len(original)
           /\ \A k \in 1..Len(original) :
                 /\ parsed[k].content = original[k].content
                 /\ parsed[k].position = original[k].position
                 /\ (parsed[k].parent_id = None)
                      <=> (original[k].parent_id = None)
                 /\ parsed[k].parent_id # None
                      => IndexOfId(parsed, Unwrap(parsed[k].parent_id))
                           = IndexOfId(original,
                                       Unwrap(original[k].parent_id))

(***************************************************************************)
(* The documents watcher (watcher.rs) and its commands (commands.rs)       *)
(***************************************************************************)

(* the watcher threads that have been spawned and have not returned *)
AliveWatchers == {t \in WThreads : wthread[t] \in {"starting", "running"}}

(* the watcher threads that are alive and were not told to stop *)
LiveWatchers == {t \in AliveWatchers : ~stop_rx[t]}

(* WatcherState::is_running *)
IsRunning == handle # None

(* WatcherHandle::stop on the handle of thread t: a message on its channel *)
StopHandle(rx, t) == [rx EXCEPT ![t] = TRUE]

(* set_handle without the stop of the old handle *)
SetHandleKeepOld(t) ==
    /\ stop_rx' = stop_rx
    /\ handle' = Some(t)

(* WatcherState::set_handle: the old handle, if any, is stopped and the new
   one takes its place, under the mutex *)
SetHandle(t) ==
    /\ stop_rx' = IF handle # None THEN StopHandle(stop_rx, Unwrap(handle))
                  ELSE stop_rx
    /\ handle' = Some(t)

(* WatcherState::stop: the handle, if any, is taken and stopped *)
StopWatcher ==
    /\ stop_rx' = IF handle # None THEN StopHandle(stop_rx, Unwrap(handle))
                  ELSE stop_rx
    /\ handle' = None

(* the application's setup hook: start_watcher, then set_handle on the
   empty WatcherState; when start_watcher fails the state stays empty *)
InitWatcherState ==
    \/ /\ handle = Some(1)
       /\ wthread = [t \in WThreads |-> IF t = 1 THEN "starting" ELSE "none"]
    \/ /\ handle = None
       /\ wthread = [t \in WThreads |-> "none"]

InitWatcher ==
    /\ InboxIdle
    /\ WalIdle
    /\ ParseIdle
    /\ InitWatcherState
    /\ stop_rx = [t \in WThreads |-> FALSE]
    /\ wpc = [c \in Callers |-> [pc |-> "idle", held |-> None, ret |-> ""]]
    /\ event_map = [t \in WThreads |-> [p \in WatchedPaths |-> "none"]]
    /\ event_rx = [t \in WThreads |-> <<>>]
    /\ emitted = None
    /\ owed = {}
    /\ mods = 0
    /\ wphase = [t \in WThreads |-> "check"]
    /\ disk = [m \in Machines |-> [f \in FileNames |-> None]]
    /\ doc = [m \in Machines |-> None]
    /\ dirty = [m \in Machines |-> {}]
    /\ fresh = [m \in Machines |-> FALSE]
    /\ seen = [m \in Machines |-> [f \in FileNames |-> None]]
    /\ lastCompact = [m \in Machines |-> None]
    /\ saves = 0
    /\ CmdIdle
    /\ ThreadIdle
    /\ ExportIdle
    /\ IndexIdle
    /\ st0 = EmptyState /\ log = <<>> /\ pre = EmptyState /\ st = EmptyState

eventVars == <<event_map, event_rx, emitted, owed, mods, wphase>>

(* start_documents_watcher on command thread c, up to its is_running
   check: with a handle registered it returns Ok(false) *)
StartCheck(c) ==
    /\ wpc[c].pc = "idle"
    /\ wpc' = [wpc EXCEPT ![c] =
                 IF IsRunning
                 THEN [pc |-> "idle", held |-> None, ret |-> "false"]
                 ELSE [pc |-> "spawn", held |-> None, ret |-> ""]]
    /\ UNCHANGED <<handle, wthread, stop_rx, eventVars, notWatcherVars>>

(* start_watcher: a new thread is spawned and its handle returned *)
StartSpawn(c) ==
    /\ wpc[c].pc = "spawn"
    /\ \E t \in WThreads :
          /\ wthread[t] = "none"
          /\ \A u \in WThreads : u < t => wthread[u] # "none"
          /\ wthread' = [wthread EXCEPT ![t] = "starting"]
          /\ wpc' = [wpc EXCEPT ![c] =
                       [pc |-> "set", held |-> Some(t), ret |-> ""]]
    /\ UNCHANGED <<handle, stop_rx, eventVars, notWatcherVars>>

(* the rest of start_documents_watcher: set_handle, then Ok(true) *)
StartSet(c) ==
    /\ wpc[c].pc = "set"
    /\ SetHandle(Unwrap(wpc[c].held))
    /\ wpc' = [wpc EXCEPT ![c] = [pc |-> "idle", held |-> None, ret |-> "true"]]
    /\ UNCHANGED <<wthread, eventVars, notWatcherVars>>

(* stop_documents_watcher on command thread c *)
StopDocumentsWatcher(c) ==
    /\ wpc[c].pc = "idle"
    /\ StopWatcher
    /\ wpc' = [wpc EXCEPT ![c] = [pc |-> "idle", held |-> None, ret |-> "ok"]]
    /\ UNCHANGED <<wthread, eventVars, notWatcherVars>>

(* the head of the watcher thread: the debouncer is created and the
   documents directory watched *)
WatcherStarts(t) ==
    /\ wthread[t] = "starting"
    /\ wthread' = [wthread EXCEPT ![t] = "running"]
    /\ UNCHANGED <<handle, stop_rx, wpc, eventVars, notWatcherVars>>

(* new_debouncer or watch fails: the thread logs the error and returns; the
   handle stays where it is *)
WatcherInitFails(t) ==
    /\ wthread[t] = "starting"
    /\ wthread' = [wthread EXCEPT ![t] = "stopped"]
    /\ UNCHANGED <<handle, stop_rx, wpc, eventVars, notWatcherVars>>

(* extract_document_id: the first component of the path below documents/,
   when it parses as a UUID *)
IsUuid(name) == name \in {"d1"}

ExtractDocumentId(path) == IF IsUuid(path[1]) THEN Some(path[1]) ELSE None

(* what the debouncer holds for a path, by the two times it keeps: "once"
   is a path written once, less than the 500 ms timeout ago; "again" one
   written more than once, all within the timeout; "continuous" one first
   written longer ago than the timeout and last written within it; "quiet"
   one last written longer ago than the timeout *)
Noted(entry) ==
    CASE entry = "none" -> "once"
      [] entry = "once" -> "again"
      [] entry = "again" -> "again"
      [] entry = "continuous" -> "continuous"
      [] entry = "quiet" -> "continuous"

(* a file is written: the debouncer of every watching thread notes it *)
Modify(path) ==
    /\ mods < MaxMods
    /\ mods' = mods + 1
    /\ event_map' = [t \in WThreads |->
                       IF wthread[t] = "running"
                       THEN [event_map[t] EXCEPT ![path] = Noted(@)]
                       ELSE event_map[t]]
    /\ owed' = IF /\ \E t \in WThreads : wthread[t] = "running"
                  /\ ExtractDocumentId(path) # None
               THEN owed \cup {Unwrap(ExtractDocumentId(path))}
               ELSE owed
    /\ UNCHANGED <<wphase, handle, wthread, stop_rx, wpc, event_rx, emitted,
                   notWatcherVars>>

(* time passes over what the debouncer of thread t holds for path: the
   timeout runs out since the last write, or, for a path written again,
   since the first *)
Elapse(t, path) ==
    /\ wthread[t] = "running"
    /\ \/ /\ event_map[t][path] \in {"once", "again", "continuous"}
          /\ event_map' = [event_map EXCEPT ![t][path] = "quiet"]
       \/ /\ event_map[t][path] = "again"
          /\ event_map' = [event_map EXCEPT ![t][path] = "continuous"]
    /\ UNCHANGED <<wphase, handle, wthread, stop_rx, wpc, event_rx, emitted, owed,
                   mods, notWatcherVars>>

(* the debouncer of thread t looks through what it holds: a quiet path is
   reported as Any and forgotten, a continuous one is reported as
   AnyContinuous and kept, the others are kept; a batch is sent only when
   it has an event *)
DebouncedEvents(map) ==
    {[path |-> p,
      kind |-> IF map[p] = "quiet" THEN "Any" ELSE "AnyContinuous"] :
       p \in {q \in WatchedPaths : map[q] \in {"quiet", "continuous"}}}

DebouncerTick(t) ==
    /\ wthread[t] = "running"
    /\ DebouncedEvents(event_map[t]) # {}
    /\ Len(event_rx[t]) < MaxQueue
    /\ event_rx' = [event_rx EXCEPT
                      ![t] = Append(@, [ok |-> TRUE,
                                        events |-> DebouncedEvents(event_map[t])])]
    /\ event_map' = [event_map EXCEPT
                       ![t] = [p \in WatchedPaths |->
                                 IF @[p] = "quiet" THEN "none" ELSE @[p]]]
    /\ UNCHANGED <<wphase, handle, wthread, stop_rx, wpc, emitted, owed, mods,
                   notWatcherVars>>

(* the file watcher reports an error to thread t *)
WatchError(t) ==
    /\ wthread[t] = "running"
    /\ Len(event_rx[t]) < MaxQueue
    /\ event_rx' = [event_rx EXCEPT
                      ![t] = Append(@, [ok |-> FALSE, events |-> {}])]
    /\ UNCHANGED <<wphase, handle, wthread, stop_rx, wpc, event_map, emitted, owed,
                   mods, notWatcherVars>>

(* changed_ids taken from the AnyContinuous events instead *)
ChangedIdsContinuous(events) ==
    {Unwrap(ExtractDocumentId(e.path)) :
       e \in {x \in events : /\ x.kind = "AnyContinuous"
                             /\ ExtractDocumentId(x.path) # None}}

(* the changed_ids of a batch: the document ids of its Any events, each
   once *)
ChangedIds(events) ==
    {Unwrap(ExtractDocumentId(e.path)) :
       e \in {x \in events : /\ x.kind = "Any"
                             /\ ExtractDocumentId(x.path) # None}}

(* variant of the stop check that looks at the stop channel only when no
   batch is waiting *)
WatcherCheckStopWhenIdle(t) ==
    /\ wthread[t] = "running"
    /\ wphase[t] = "check"
    /\ IF stop_rx[t] /\ event_rx[t] = <<>>
       THEN /\ wthread' = [wthread EXCEPT ![t] = "stopped"]
            /\ event_map' = [event_map EXCEPT
                               ![t] = [p \in WatchedPaths |-> "none"]]
            /\ event_rx' = [event_rx EXCEPT ![t] = <<>>]
            /\ UNCHANGED wphase
       ELSE /\ wphase' = [wphase EXCEPT ![t] = "recv"]
            /\ UNCHANGED <<wthread, event_map, event_rx>>
    /\ UNCHANGED <<handle, stop_rx, wpc, emitted, owed, mods, notWatcherVars>>

(* the head of a turn of the loop of thread t: stop_rx.try_recv(); a stop
   signal ends the thread, and the debouncer and what it held with it *)
WatcherCheckStop(t) ==
    /\ wthread[t] = "running"
    /\ wphase[t] = "check"
    /\ IF stop_rx[t]
       THEN /\ wthread' = [wthread EXCEPT ![t] = "stopped"]
            /\ event_map' = [event_map EXCEPT
                               ![t] = [p \in WatchedPaths |-> "none"]]
            /\ event_rx' = [event_rx EXCEPT ![t] = <<>>]
            /\ UNCHANGED wphase
       ELSE /\ wphase' = [wphase EXCEPT ![t] = "recv"]
            /\ UNCHANGED <<wthread, event_map, event_rx>>
    /\ UNCHANGED <<handle, stop_rx, wpc, emitted, owed, mods, notWatcherVars>>

(* the rest of the turn: event_rx.recv_timeout(100 ms); the next batch, if
   there is one, becomes a documents-changed payload, with or without ids;
   an error is logged; with no batch the receive times out *)
WatcherReceive(t) ==
    /\ wthread[t] = "running"
    /\ wphase[t] = "recv"
    /\ wphase' = [wphase EXCEPT ![t] = "check"]
    /\ IF event_rx[t] # <<>>
       THEN /\ event_rx' = [event_rx EXCEPT ![t] = Tail(@)]
            /\ IF Head(event_rx[t]).ok
               THEN /\ emitted' = Some([document_ids |->
                              ChangedIds(Head(event_rx[t]).events)])
                    /\ owed' = owed \ ChangedIds(Head(event_rx[t]).events)
               ELSE UNCHANGED <<emitted, owed>>
       ELSE UNCHANGED <<event_rx, emitted, owed>>
    /\ UNCHANGED <<handle, wthread, stop_rx, wpc, event_map, mods,
                   notWatcherVars>>

(* one step of the loop of thread t *)
WatcherLoop(t) == WatcherCheckStop(t) \/ WatcherReceive(t)

(* the watcher commands on two command threads, and the threads they
   start and stop *)
NextWatcher ==
    \/ \E c \in Callers : StartCheck(c)
    \/ \E c \in Callers : StartSpawn(c)
    \/ \E c \in Callers : StartSet(c)
    \/ \E c \in Callers : StopDocumentsWatcher(c)
    \/ \E t \in WThreads : WatcherStarts(t)
    \/ \E t \in WThreads : WatcherInitFails(t)
    \/ \E t \in WThreads : WatcherLoop(t)

SpecWatcher == InitWatcher /\ [][NextWatcher]_vars

(* the watcher the setup hook started, the files written under
   documents/, and stop_documents_watcher *)
WatcherOne == 1

InitEvents == InitWatcher /\ handle = Some(WatcherOne)

NextEvents ==
    \/ WatcherStarts(WatcherOne)
    \/ WatcherInitFails(WatcherOne)
    \/ \E path \in WatchedPaths : Modify(path)
    \/ \E path \in WatchedPaths : Elapse(WatcherOne, path)
    \/ DebouncerTick(WatcherOne)
    \/ WatchError(WatcherOne)
    \/ WatcherLoop(WatcherOne)
    \/ \E c \in Callers : StopDocumentsWatcher(c)

SpecEvents == InitEvents /\ [][NextEvents]_vars

(* the clock runs, the debouncer's thread and the watcher thread are
   scheduled; the debouncer's channel has no capacity limit in the code,
   so the debouncer sends whenever the loop has made room in event_rx *)
FairEvents ==
    /\ \A path \in WatchedPaths : WF_vars(Elapse(WatcherOne, path))
    /\ SF_vars(DebouncerTick(WatcherOne))
    /\ WF_vars(WatcherLoop(WatcherOne))
    /\ WF_vars(WatcherStarts(WatcherOne) \/ WatcherInitFails(WatcherOne))

SpecEventsFair == SpecEvents /\ FairEvents

(***************************************************************************)
(* Properties of the watcher                                               *)
(***************************************************************************)

(* C26: a start_documents_watcher that begins while a watcher thread is
   running (spawned, not returned, not told to stop) does not go on to
   spawn a thread: it returns Ok(false) *)
StartWhileRunningSpawnsNothing ==
    [][\A c \in Callers :
         (/\ LiveWatchers # {}
          /\ wpc[c].pc = "idle"
          /\ wpc'[c].pc # "idle" \/ wpc'[c].ret \in {"true", "false"}
          /\ wpc'[c] # wpc[c])
         => (/\ wpc'[c] = [pc |-> "idle", held |-> None, ret |-> "false"]
             /\ wthread' = wthread)]_vars

(* C26, as the code has it: a start_documents_watcher that finds a handle
   registered returns Ok(false) and spawns nothing; whenever no watcher
   command is in progress, at most one watcher thread is alive that was not
   told to stop, and it is the registered one *)
OneWatcherLeft ==
    /\ []((\A c \in Callers : wpc[c].pc = "idle")
             => /\ Cardinality(LiveWatchers) <= 1
                /\ \A t \in LiveWatchers : handle = Some(t))
    /\ [][\A c \in Callers :
            (/\ IsRunning
             /\ wpc[c].pc = "idle"
             /\ wpc'[c].pc # "idle" \/ wpc'[c].ret \in {"true", "false"}
             /\ wpc'[c] # wpc[c])
            => (/\ wpc'[c] = [pc |-> "idle", held |-> None, ret |-> "false"]
                /\ wthread' = wthread)]_vars

(* two start_documents_watcher calls have both returned Ok(true): the
   thread of one is registered and running, the thread of the other is
   still running and has been told to stop *)
OneWatcherLeftWitness ==
    /\ \A c \in Callers : wpc[c].pc = "idle" /\ wpc[c].ret = "true"
    /\ \E t, u \in WThreads :
          /\ t # u
          /\ handle = Some(u)
          /\ wthread[u] = "running" /\ ~stop_rx[u]
          /\ wthread[t] = "running" /\ stop_rx[t]

(* C25: while the watcher thread is running, a modification of a file
   under documents/<id>/, <id> a UUID, is eventually followed by a
   documents-changed payload whose document_ids contains <id> *)
WatcherCompleteness ==
    \A id \in {"d1"} :
       (id \in owed /\ wthread[WatcherOne] = "running")
          ~> (id \notin owed \/ wthread[WatcherOne] # "running")

(* both files of the document were written, one of them more than once,
   and the last payload, sent while the thread is still running and was
   not told to stop, names the document *)
WatcherCompletenessWitness ==
    /\ mods = MaxMods
    /\ wthread[WatcherOne] = "running" /\ ~stop_rx[WatcherOne]
    /\ emitted # None /\ "d1" \in Unwrap(emitted).document_ids
    /\ owed = {}
    /\ \A p \in WatchedPaths : event_map[WatcherOne][p] = "none"
    /\ event_rx[WatcherOne] = <<>>

(***************************************************************************)
(* The search index (search/mod.rs) and the commands that use it           *)
(***************************************************************************)

IndexIds == 1..MaxIndexIds

IndexDocs == {"d1", "d2"}

(* strip_html of the search index, on the contents used here *)
SearchStripHtml(html) ==
    CASE html = "<b>b</b>" -> "b"
      [] OTHER -> html

(* the rows of a table with a document_id, as id and content *)
RowsOf(table, document_id) ==
    {[id |-> i, content |-> Unwrap(table[i]).content] :
       i \in {j \in IndexIds : /\ table[j] # None
                               /\ Unwrap(table[j]).document_id = document_id}}

(* the rows index_document is asked to store for the nodes *)
SuppliedRows(nodes) ==
    {[id |-> nodes[k].id, content |-> SearchStripHtml(nodes[k].content)] :
       k \in 1..Len(nodes)}

(* DELETE FROM nodes WHERE document_id = ? *)
DeleteDocument(table, document_id) ==
    [i \in IndexIds |->
       IF table[i] # None /\ Unwrap(table[i]).document_id = document_id
       THEN None ELSE table[i]]

(* INSERT INTO nodes succeeds when no row has the id, the primary key *)
CanInsert(table, node) == table[node.id] = None

InsertNode(table, document_id, node) ==
    [table EXCEPT ![node.id] =
       Some([document_id |-> document_id,
             content |-> SearchStripHtml(node.content)])]

(* the node lists handed to index_document: distinct ids, HTML content *)
IndexedNodeLists ==
    {<<>>} \cup
    {<<[id |-> i, content |-> "<b>b</b>"]>> : i \in IndexIds} \cup
    {<<[id |-> i, content |-> "<b>b</b>"],
       [id |-> j, content |-> "<b>b</b>"]>> :
       <<i, j>> \in {x \in IndexIds \X IndexIds : x[1] # x[2]}}

(* the tables earlier runs left: each id absent or indexed, with plain
   content, under one of the documents *)
InitialTables ==
    [IndexIds -> {None} \cup
                 {Some([document_id |-> e, content |-> "a"]) : e \in IndexDocs}]

InCall(call) == call.pc \in {"delete", "insert"}

OtherConnection(c) == CHOOSE o \in Connections : o # c

InitIndex ==
    /\ InboxIdle
    /\ WalIdle
    /\ ParseIdle
    /\ db \in InitialTables
    /\ ipc = [c \in Connections |-> IdleCall]
    /\ found = None
    /\ disk = [m \in Machines |-> [f \in FileNames |-> None]]
    /\ doc = [m \in Machines |-> None]
    /\ dirty = [m \in Machines |-> {}]
    /\ fresh = [m \in Machines |-> FALSE]
    /\ seen = [m \in Machines |-> [f \in FileNames |-> None]]
    /\ lastCompact = [m \in Machines |-> None]
    /\ saves = 0
    /\ CmdIdle
    /\ ThreadIdle
    /\ ExportIdle
    /\ WatcherIdle
    /\ st0 = EmptyState /\ log = <<>> /\ pre = EmptyState /\ st = EmptyState

(* index_document is entered on connection c and takes that connection's
   mutex: by the indexing thread load_document spawns, on the connection the
   thread opens, or by an import command, on the connection of
   AppState.search_index, whose lock the command holds; once on each
   connection.  The call keeps the table it started from, and whether the
   other connection stayed out of a call of its own all the while. *)
BeginIndexDocument(c, document_id, nodes) ==
    /\ ipc[c] = IdleCall
    /\ ipc' = [o \in Connections |->
                 IF o = c
                 THEN [pc |-> "delete", document_id |-> document_id,
                       nodes |-> nodes, k |-> 1, before |-> db,
                       alone |-> ~InCall(ipc[OtherConnection(c)]),
                       ret |-> ""]
                 ELSE IF InCall(ipc[o]) THEN [ipc[o] EXCEPT !.alone = FALSE]
                 ELSE ipc[o]]
    /\ UNCHANGED <<db, found, notIndexVars>>

(* the DELETE of index_document on connection c, a statement of its own *)
IndexDelete(c) ==
    /\ ipc[c].pc = "delete"
    /\ db' = DeleteDocument(db, ipc[c].document_id)
    /\ ipc' = [ipc EXCEPT ![c].pc = IF ipc[c].nodes = <<>> THEN "done"
                                    ELSE "insert",
                          ![c].ret = IF ipc[c].nodes = <<>> THEN "ok" ELSE ""]
    /\ UNCHANGED <<found, notIndexVars>>

(* the next INSERT of index_document on connection c, a statement of its
   own: the call returns the error of a failed INSERT at once, and Ok
   after the last *)
IndexInsert(c) ==
    /\ ipc[c].pc = "insert"
    /\ LET call == ipc[c]
           node == call.nodes[call.k]
       IN IF CanInsert(db, node)
          THEN /\ db' = InsertNode(db, call.document_id, node)
               /\ ipc' = [ipc EXCEPT
                            ![c].k = call.k + 1,
                            ![c].pc = IF call.k = Len(call.nodes)
                                      THEN "done" ELSE "insert",
                            ![c].ret = IF call.k = Len(call.nodes)
                                       THEN "ok" ELSE ""]
          ELSE /\ db' = db
               /\ ipc' = [ipc EXCEPT ![c].pc = "done", ![c].ret = "err"]
    /\ UNCHANGED <<found, notIndexVars>>

(* the search command with a document id: one SELECT on the connection of
   AppState.search_index, under its lock *)
Search(document_id) ==
    /\ ~InCall(ipc["main"])
    /\ found' = Some([document_id |-> document_id,
                      rows |-> RowsOf(db, document_id)])
    /\ UNCHANGED <<db, ipc, notIndexVars>>

NextIndex ==
    \/ \E c \in Connections, e \in IndexDocs, nodes \in IndexedNodeLists :
          BeginIndexDocument(c, e, nodes)
    \/ \E c \in Connections : IndexDelete(c)
    \/ \E c \in Connections : IndexInsert(c)
    \/ \E e \in IndexDocs : Search(e)

SpecIndex == InitIndex /\ [][NextIndex]_vars

(***************************************************************************)
(* Properties of the search index                                          *)
(***************************************************************************)

(* C27: when an index_document(d, nodes) that no other connection ran
   beside returns, the rows with document_id d are the supplied nodes if
   it returned Ok and the rows from before the call if it returned an
   error, and the rows of every other document are those from before *)
IndexDocumentReplacesAtomically ==
    [][\A c \in Connections :
         (InCall(ipc[c]) /\ ipc'[c].pc = "done" /\ ipc'[c].alone)
         => LET call == ipc'[c]
            IN /\ call.ret = "ok"
                    => RowsOf(db', call.document_id) = SuppliedRows(call.nodes)
               /\ call.ret = "err"
                    => RowsOf(db', call.document_id)
                         = RowsOf(call.before, call.document_id)
               /\ \A e \in IndexDocs \ {call.document_id} :
                     RowsOf(db', e) = RowsOf(call.before, e)]_vars

(* C28: a search for a document, made while the indexing thread of
   load_document is inside index_document for that document and nothing
   else has written to the index meanwhile, returns either the rows from
   before the re-indexing or the rows being stored, never a part *)
SearchSeesWholeDocuments ==
    [][(/\ found' # found /\ found' # None
        /\ InCall(ipc["bg"]) /\ ipc["bg"].alone
        /\ Unwrap(found').document_id = ipc["bg"].document_id)
       => Unwrap(found').rows \in
             {RowsOf(ipc["bg"].before, ipc["bg"].document_id),
              SuppliedRows(ipc["bg"].nodes)}]_vars

(***************************************************************************)
(* Frame properties of Operation::apply (SpecApply)                        *)
(***************************************************************************)
(* the last operation is an Update or Move of kind that found its node in
   pre and was newer than it *)
Accepted(kind) ==
    /\ log # <<>>
    /\ LastOp.op = kind
    /\ FindNode(pre, LastOp.id) # 0
    /\ LastOp.updated_at > pre.nodes[FindNode(pre, LastOp.id)].updated_at

NodeFields == DOMAIN CreatedNode(CreateOp(1, None, 0, "", NodeTypeDefault, 1))

(* C31: an accepted Move changes only parent_id, position and updated_at of
   its target node: every other field of that node and every other node,
   the siblings at the old and the new parent included, is as before, and
   so are the number and the order of the nodes *)
MoveFrame ==
    Accepted("move") =>
       LET i == FindNode(pre, LastOp.id) IN
       /\ Len(st.nodes) = Len(pre.nodes)
       /\ \A j \in 1..Len(pre.nodes) : j # i => st.nodes[j] = pre.nodes[j]
       /\ \A f \in NodeFields \ {"parent_id", "position", "updated_at"} :
             st.nodes[i][f] = pre.nodes[i][f]
       /\ st.nodes[i].parent_id = LastOp.parent_id
       /\ st.nodes[i].position = LastOp.position
       /\ st.nodes[i].updated_at = LastOp.updated_at

(* an accepted Move put its node next to a sibling that has the same
   position *)
MoveFrameWitness ==
    /\ Accepted("move")
    /\ \E j \in 1..Len(st.nodes) :
          /\ j # FindNode(pre, LastOp.id)
          /\ st.nodes[j].parent_id = LastOp.parent_id
          /\ st.nodes[j].position = LastOp.position
          /\ pre.nodes[FindNode(pre, LastOp.id)].parent_id # LastOp.parent_id

(* the fields of NodeChanges by how the Update arm stores a present value:
   as it is, wrapped in Some, or through the empty-string sentinel *)
PlainFields == {"content", "node_type", "is_checked", "tags", "collapsed"}

OptionalFields == {"note", "heading_level", "color", "mirror_source_id"}

DateFields == {"date", "date_recurrence"}

(* C32: an accepted Update leaves every field absent from changes as it
   was and sets every present field to the given value, tags as a whole;
   for date and date_recurrence a present empty string clears the field
   and a present non-empty string sets it; parent_id, position, created_at
   and all other nodes are unchanged *)
UpdateIsSparsePatch ==
    Accepted("update") =>
       LET i == FindNode(pre, LastOp.id)
           changes == LastOp.changes
       IN
       /\ Len(st.nodes) = Len(pre.nodes)
       /\ \A j \in 1..Len(pre.nodes) : j # i => st.nodes[j] = pre.nodes[j]
       /\ \A f \in {"id", "parent_id", "position", "created_at"} :
             st.nodes[i][f] = pre.nodes[i][f]
       /\ \A f \in ChangeFields :
             changes[f] = None => st.nodes[i][f] = pre.nodes[i][f]
       /\ \A f \in PlainFields :
             changes[f] # None => st.nodes[i][f] = Unwrap(changes[f])
       /\ \A f \in OptionalFields :
             changes[f] # None => st.nodes[i][f] = Some(Unwrap(changes[f]))
       /\ \A f \in DateFields :
             changes[f] # None =>
                st.nodes[i][f] = IF Unwrap(changes[f]) = "" THEN None
                                 ELSE Some(Unwrap(changes[f]))

(* an accepted Update cleared the date of a node whose date and content
   an earlier Update had set, and the content is still there *)
UpdateIsSparsePatchWitness ==
    /\ Accepted("update")
    /\ LastOp.changes.date = Some("")
    /\ pre.nodes[FindNode(pre, LastOp.id)].date = Some("d")
    /\ pre.nodes[FindNode(pre, LastOp.id)].content = "c"
    /\ st.nodes[FindNode(pre, LastOp.id)].date = None
    /\ st.nodes[FindNode(pre, LastOp.id)].content = "c"

(* node n of nodes lies on a parent_id cycle *)
OnCycle(nodes, n) == ChainReaches(nodes, n, n.id, Len(nodes))

(* the ids reachable from id x through child links: x, and the id of every
   node whose parent is reachable *)
RECURSIVE Grow(_, _, _)
Grow(nodes, ids, fuel) ==
    IF fuel = 0
    THEN ids
    ELSE Grow(nodes,
              ids \cup {nodes[k].id :
                          k \in {j \in 1..Len(nodes) :
                                   /\ nodes[j].parent_id # None
                                   /\ Unwrap(nodes[j].parent_id) \in ids}},
              fuel - 1)

ReachableFrom(nodes, x) == Grow(nodes, {x}, Len(nodes))

(* the number of outline elements of a generated body *)
RECURSIVE CountOutlines(_)
CountOutlines(outlines) ==
    IF outlines = <<>>
    THEN 0
    ELSE 1 + CountOutlines(Head(outlines).outlines)
           + CountOutlines(Tail(outlines))

(* C33: a Move that puts a node under itself or under one of its
   descendants is accepted like any other newer Move; on a state with a
   parent_id cycle, a Delete of a node on the cycle collects each node
   reachable from it through child links once and removes exactly those,
   and the OPML and Markdown exports write the nodes that hang from a
   root, each once, and none of a cycle *)
CyclesAreHarmless ==
    /\ Accepted("move") =>
          st.nodes[FindNode(pre, LastOp.id)].parent_id = LastOp.parent_id
    /\ (/\ log # <<>> /\ LastOp.op = "delete"
        /\ FindNode(pre, LastOp.id) # 0
        /\ OnCycle(pre.nodes, pre.nodes[FindNode(pre, LastOp.id)]))
       => LET reach == ReachableFrom(pre.nodes, LastOp.id)
              to_delete == CollectToDelete(pre.nodes, <<LastOp.id>>, 1)
          IN /\ Len(to_delete) = Cardinality(reach)
             /\ SeqToSet(to_delete) = reach
             /\ st.nodes = SelectSeq(pre.nodes, LAMBDA n : n.id \notin reach)
    /\ LET hanging == SelectSeq(st.nodes,
                         LAMBDA n : /\ ~OnCycle(st.nodes, n)
                                    /\ \/ n.parent_id = None
                                       \/ \E r \in 1..Len(st.nodes) :
                                            /\ st.nodes[r].parent_id = None
                                            /\ InSubtree(st.nodes, n,
                                                         st.nodes[r].id))
       IN /\ CountOutlines(GenerateOpml(st.nodes)) = Len(hanging)
          /\ Len(GenerateMarkdown(st.nodes)) = Len(hanging)

(* a Move put a node under itself while another node stayed a root, and
   the Delete of the node on the cycle removed it and kept the root *)
CyclesAreHarmlessWitness ==
    /\ Len(log) = 2
    /\ log[1].op = "move" /\ log[2].op = "delete"
    /\ FindNode(pre, LastOp.id) # 0
    /\ OnCycle(pre.nodes, pre.nodes[FindNode(pre, LastOp.id)])
    /\ Len(pre.nodes) = 2
    /\ Len(st.nodes) = 1

(* C34: once a stop signal is in the channel of the watcher thread, the
   thread leaves its loop, whether or not batches keep arriving, and after
   it has seen the signal it hands no payload to emit *)
StopIsEffective ==
    /\ (stop_rx[WatcherOne] /\ wthread[WatcherOne] \in {"starting", "running"})
          ~> (wthread[WatcherOne] = "stopped")
    /\ [][wthread[WatcherOne] = "stopped"
             => /\ emitted' = emitted
                /\ wthread'[WatcherOne] = "stopped"]_vars

(* the thread was stopped after it had sent a payload, with a write to a
   document still waiting in its debouncer: no payload names it *)
StopIsEffectiveWitness ==
    /\ wthread[WatcherOne] = "stopped"
    /\ stop_rx[WatcherOne]
    /\ emitted # None
    /\ owed # {}

(* C38: no two nodes of the state share an id, whatever operations were
   applied and in whatever order *)
IdsAreUnique ==
    \A i, j \in 1..Len(st.nodes) :
       st.nodes[i].id = st.nodes[j].id => i = j

(* a Create was applied for an id that was deleted before and for an id
   that is present: the state holds one node per id *)
IdsAreUniqueWitness ==
    /\ Len(log) = 2
    /\ log[1].op = "delete"
    /\ LastOp.op = "create"
    /\ NodeExists(st0, log[1].id)
    /\ NodeExists(pre, LastOp.id)
    /\ Len(st.nodes) = Len(pre.nodes)

(* C39: a note, color, heading_level or mirror_source_id that a node has
   is still present after the next operation unless that operation is a
   Delete that removed the node: no Update and no Move clears it *)
OptionalFieldsStay ==
    log # <<>> =>
       \A i \in 1..Len(pre.nodes) :
          LET n == pre.nodes[i] IN
          IF NodeExists(st, n.id)
          THEN \A f \in OptionalFields :
                  IsSome(n[f]) => IsSome(st.nodes[FindNode(st, n.id)][f])
          ELSE LastOp.op = "delete"

(* an accepted Update that names the note of a node that has one, and one
   that names other fields only, both left the node with a note *)
OptionalFieldsStayWitness ==
    /\ Len(log) = 2
    /\ \A k \in 1..2 : log[k].op = "update" /\ log[k].id = 1
    /\ IsSome(log[1].changes.note)
    /\ ~IsSome(log[2].changes.note)
    /\ Accepted("update")
    /\ IsSome(pre.nodes[FindNode(pre, 1)].note)
    /\ st.nodes[FindNode(st, 1)].note = log[1].changes.note

(***************************************************************************)
(* parse_opml as the reader hands it events (SpecOpml)                     *)
(***************************************************************************)
(* the events of an outline element: Event::Start, Event::Empty and
   Event::End with the tag name "outline" *)
OutlineEvents == {"start", "empty", "end"}

RECURSIVE Depth(_, _)
(* the number of outline elements open after the first k events *)
Depth(events, k) ==
    IF k = 0
    THEN 0
    ELSE Depth(events, k - 1)
         + (CASE events[k] = "start" -> 1
              [] events[k] = "end" -> -1
              [] OTHER -> 0)

(* every end closes a start that is open, and none stays open *)
WellNested(events) ==
    /\ \A k \in 1..Len(events) : Depth(events, k) >= 0
    /\ Depth(events, Len(events)) = 0

(* the documents read: a body element around a well-nested sequence of
   outline events *)
OpmlInputs ==
    {<<"body">> \o events \o <<"/body">> :
        events \in {e \in UNION {[1..n -> OutlineEvents] : n \in 0..MaxEvents} :
                       WellNested(e)}}

RootFrame == [parent_id |-> None, next |-> 0]

InitOpml ==
    /\ InboxIdle
    /\ WalIdle
    /\ parser \in {[events |-> e, at |-> 0, nodes |-> <<>>,
                    parent_stack |-> <<RootFrame>>, in_body |-> FALSE] :
                      e \in OpmlInputs}
    /\ disk = [m \in Machines |-> [f \in FileNames |-> None]]
    /\ doc = [m \in Machines |-> None]
    /\ dirty = [m \in Machines |-> {}]
    /\ fresh = [m \in Machines |-> FALSE]
    /\ seen = [m \in Machines |-> [f \in FileNames |-> None]]
    /\ lastCompact = [m \in Machines |-> None]
    /\ saves = 0
    /\ CmdIdle
    /\ st0 = EmptyState
    /\ log = <<>>
    /\ pre = EmptyState
    /\ st = EmptyState
    /\ ThreadIdle
    /\ ExportIdle
    /\ WatcherIdle
    /\ IndexIdle

(* variant of ParseOutlineElement that leaves the position of the frame as
   it is *)
ParseOutlineElementKeepPosition(parent_stack, id) ==
    IF parent_stack # <<>>
    THEN [node |-> [id |-> id,
                    parent_id |-> parent_stack[Len(parent_stack)].parent_id,
                    position |-> parent_stack[Len(parent_stack)].next],
          parent_stack |-> parent_stack]
    ELSE [node |-> [id |-> id, parent_id |-> None, position |-> 0],
          parent_stack |-> parent_stack]

(* parse_outline_element, as far as the stack goes: the node takes the
   parent and the position of the top frame and the frame's position goes
   up by one; with no frame the node is a root at position 0. id is the
   value Uuid::now_v7() returns *)
ParseOutlineElement(parent_stack, id) ==
    IF parent_stack # <<>>
    THEN LET top_frame == parent_stack[Len(parent_stack)] IN
         [node |-> [id |-> id, parent_id |-> top_frame.parent_id,
                    position |-> top_frame.next],
          parent_stack |->
             [parent_stack EXCEPT ![Len(parent_stack)].next = @ + 1]]
    ELSE [node |-> [id |-> id, parent_id |-> None, position |-> 0],
          parent_stack |-> parent_stack]

(* variant of PushFrame that pushes no frame *)
PushFrameNever(parent_stack, node_id) == parent_stack

(* parent_stack.push((Some(node_id), 0)) *)
PushFrame(parent_stack, node_id) ==
    Append(parent_stack, [parent_id |-> Some(node_id), next |-> 0])

(* the id of the next node: distinct from every id given before *)
NextUuid == NewIdBase + Len(parser.nodes) + 1

(* the event read_event_into returns next *)
Reading(event) ==
    /\ parser.at < Len(parser.events)
    /\ parser.events[parser.at + 1] = event

(* Event::Start of body *)
ReadBodyStart ==
    /\ Reading("body")
    /\ parser' = [parser EXCEPT !.at = @ + 1, !.in_body = TRUE]
    /\ UNCHANGED notParseVars

(* Event::Start of outline: the node, then a frame for its children *)
ReadOutlineStart ==
    /\ Reading("start")
    /\ IF parser.in_body
       THEN LET r == ParseOutlineElement(parser.parent_stack, NextUuid) IN
            parser' = [parser EXCEPT
                         !.at = @ + 1,
                         !.nodes = Append(@, r.node),
                         !.parent_stack =
                            PushFrame(r.parent_stack, r.node.id)]
       ELSE parser' = [parser EXCEPT !.at = @ + 1]
    /\ UNCHANGED notParseVars

(* Event::Empty of outline: the node, no frame *)
ReadOutlineEmpty ==
    /\ Reading("empty")
    /\ IF parser.in_body
       THEN LET r == ParseOutlineElement(parser.parent_stack, NextUuid) IN
            parser' = [parser EXCEPT
                         !.at = @ + 1,
                         !.nodes = Append(@, r.node),
                         !.parent_stack = r.parent_stack]
       ELSE parser' = [parser EXCEPT !.at = @ + 1]
    /\ UNCHANGED notParseVars

(* Event::End of outline: Vec::pop, which does nothing on an empty stack *)
ReadOutlineEnd ==
    /\ Reading("end")
    /\ IF parser.in_body
       THEN parser' = [parser EXCEPT
                         !.at = @ + 1,
                         !.parent_stack =
                            IF @ = <<>> THEN @ ELSE SubSeq(@, 1, Len(@) - 1)]
       ELSE parser' = [parser EXCEPT !.at = @ + 1]
    /\ UNCHANGED notParseVars

(* Event::End of body *)
ReadBodyEnd ==
    /\ Reading("/body")
    /\ parser' = [parser EXCEPT !.at = @ + 1, !.in_body = FALSE]
    /\ UNCHANGED notParseVars

(* Event::Eof: the loop ends and nodes is returned *)
ReadEof ==
    /\ parser.at = Len(parser.events)
    /\ parser' = [parser EXCEPT !.at = @ + 1]
    /\ UNCHANGED notParseVars

NextOpml ==
    \/ ReadBodyStart
    \/ ReadOutlineStart
    \/ ReadOutlineEmpty
    \/ ReadOutlineEnd
    \/ ReadBodyEnd
    \/ ReadEof

SpecOpml == InitOpml /\ [][NextOpml]_vars

(* parse_opml has returned *)
ParseDone == parser.at = Len(parser.events) + 1

(* event k produces a node *)
MakesNode(events, k) == events[k] \in {"start", "empty"}

(* the index in nodes of the node event k produces *)
NodeOf(events, k) == Cardinality({j \in 1..k : MakesNode(events, j)})

(* the start event of the nearest outline that encloses event k, 0 when
   event k is at the top level of body *)
Encloser(events, k) ==
    LET open == {j \in 1..(k - 1) :
                    /\ events[j] = "start"
                    /\ \A m \in j..(k - 1) :
                          Depth(events, m) >= Depth(events, j)}
    IN IF open = {} THEN 0
       ELSE CHOOSE j \in open : \A i \in open : i <= j

(* the events read so far that produce a node *)
NodeEvents ==
    {k \in 1..Len(parser.events) :
        k <= parser.at /\ MakesNode(parser.events, k)}

(* C35: on a well-nested body, the node of each start or empty element has
   the id of the nearest enclosing outline as parent_id (none at the top
   level), the children of each parent are numbered 0, 1, 2, ... in
   document order whether they are start or empty elements, and when the
   parser returns the stack holds the root frame alone *)
OpmlStackMachine ==
    LET events == parser.events IN
    /\ Len(parser.nodes) = Cardinality(NodeEvents)
    /\ \A k \in NodeEvents :
          LET node == parser.nodes[NodeOf(events, k)]
              e == Encloser(events, k)
          IN /\ node.parent_id =
                   IF e = 0 THEN None
                   ELSE Some(parser.nodes[NodeOf(events, e)].id)
             /\ node.position =
                   Cardinality({j \in NodeEvents :
                                   j < k /\ Encloser(events, j) = e})
    /\ ParseDone =>
          /\ Len(parser.parent_stack) = 1
          /\ parser.parent_stack[1].parent_id = None
          /\ parser.parent_stack[1].next =
                Cardinality({k \in NodeEvents : Encloser(events, k) = 0})

(* the parser returned from a body in which an empty element is followed
   by a sibling, below an outline that has a later sibling itself *)
OpmlStackMachineWitness ==
    /\ ParseDone
    /\ \E k \in NodeEvents :
          /\ parser.events[k] = "start"
          /\ parser.events[k + 1] = "empty"
          /\ k + 2 \in NodeEvents
          /\ Encloser(parser.events, k + 2) = k
          /\ \E j \in NodeEvents :
                /\ j > k + 2
                /\ Encloser(parser.events, j) = Encloser(parser.events, k)

(***************************************************************************)
(* SpecWal: the mutation commands of one machine step by step (each        *)
(* append_op and each apply is a step and an append can fail), and         *)
(* Document::compact step by step, with the process stopping between its   *)
(* file operations and the directory loaded again afterwards.              *)
(***************************************************************************)
(* the node lists handed to import_nodes_to_document: one node with a
   note, or two nodes without metadata *)
WalImports ==
    {<<[CreatedNode(CreateOp(1, None, 0, "a", NodeTypeDefault, t))
          EXCEPT !.note = Some("n")]>> : t \in StoreTimes}
    \cup {<<CreatedNode(CreateOp(1, None, 0, "a", NodeTypeDefault, t)),
            CreatedNode(CreateOp(2, Some(1), 0, "i", NodeTypeDefault, t))>> :
            t \in StoreTimes}

(* the items read_inbox returns: one captured line with a note *)
WalInboxItems == {<<[id |-> "i1", content |-> "x", note |-> Some("n")]>>}

(* the node the inbox setting names *)
InboxNodeId == 1

(* import_inbox_items: max position among the children of the inbox node,
   -1 when it has none *)
MaxPosition(state, inbox_node_id) ==
    LET ps == {state.nodes[i].position : i \in
                  {j \in 1..Len(state.nodes) :
                      state.nodes[j].parent_id = Some(inbox_node_id)}}
    IN IF ps = {} THEN -1 ELSE CHOOSE p \in ps : \A q \in ps : q <= p

(* import_inbox_items: the operations of the loop over the items, in the
   order they are appended and applied: create_op under the inbox node with
   a new id and the clock, then update_op for the note *)
RECURSIVE InboxOps(_, _, _, _, _)
InboxOps(items, i, max_position, uuids, now) ==
    IF i > Len(items)
    THEN <<>>
    ELSE LET new_id == NewIdBase + uuids + i
             op == CreateOp(new_id, Some(InboxNodeId), max_position + i,
                            items[i].content, NodeTypeDefault, now)
         IN <<op>>
            \o (IF IsSome(items[i].note)
                THEN <<UpdateOp(new_id,
                                [NoChanges EXCEPT !.note = items[i].note],
                                now)>>
                ELSE <<>>)
            \o InboxOps(items, i + 1, max_position, uuids, now)

WalStart ==
    [cmd |-> "none", todo |-> <<>>, appended |-> FALSE, since |-> <<>>,
     ret |-> "", cpc |-> "", crash |-> None, n |-> 0]

(* the directories the machine starts from: an empty snapshot, alone or
   with the pending file of another machine *)
WalDirs ==
    {[f \in FileNames |->
        IF f = StatePath THEN Some(StateToJson(EmptyState))
        ELSE IF f = PendingPath(Hostname(Remote)) THEN lines
        ELSE None] :
        lines \in {None} \cup
                  {Some(<<PendingLine(op, LineBytes(op))>>) :
                      op \in {CreateOp(1, None, 1, "b", "checkbox", 1)}}}

(* the machine has loaded the document *)
InitWal ==
    /\ InboxIdle
    /\ wal = WalStart
    /\ \E dir \in WalDirs :
          /\ disk = [m \in Machines |->
                       IF m = Local THEN dir
                       ELSE [f \in FileNames |-> None]]
          /\ \E order \in ReadDirOrders :
                doc = [m \in Machines |->
                         IF m = Local THEN Some(Load(dir, order)) ELSE None]
    /\ dirty = [m \in Machines |-> {}]
    /\ fresh = [m \in Machines |-> FALSE]
    /\ seen = [m \in Machines |-> [f \in FileNames |-> None]]
    /\ lastCompact = [m \in Machines |-> None]
    /\ saves = 0
    /\ CmdIdle
    /\ st0 = EmptyState /\ log = <<>> /\ pre = EmptyState /\ st = EmptyState
    /\ ThreadIdle
    /\ ExportIdle
    /\ WatcherIdle
    /\ IndexIdle
    /\ ParseIdle

WalRest ==
    UNCHANGED <<dirty, fresh, seen, lastCompact, saves, applyVars, cmdVars,
                threadVars, exportVars, watcherVars, indexVars, parseVars,
                inboxVars>>

(* a command can begin: a document is loaded and the lock is free *)
WalReady(k) ==
    /\ wal.cmd = "none"
    /\ doc[Local] # None
    /\ wal.n + k <= MaxWalOps

WalBegin(cmd, ops) ==
    /\ wal' = [wal EXCEPT !.cmd = cmd, !.todo = ops, !.appended = FALSE,
                          !.ret = "", !.crash = None,
                          !.n = @ + Len(ops)]
    /\ UNCHANGED <<disk, doc>>
    /\ WalRest

(* save_op called with an operation *)
BeginSaveOp(op) ==
    /\ WalReady(1)
    /\ WalBegin("save_op", <<op>>)

(* import_opml / import_json: import_nodes_to_document on parsed nodes *)
BeginImport(nodes, now) ==
    /\ WalReady(Len(ImportOps(nodes, now)))
    /\ WalBegin("import", ImportOps(nodes, now))

(* import_inbox_items with the inbox document loaded: Err before any
   operation when the inbox node is not in the document *)
BeginInbox(items, now) ==
    /\ WalReady(2 * Len(items))
    /\ IF NodeExists(Unwrap(doc[Local]).state, InboxNodeId)
       THEN WalBegin("inbox",
                     InboxOps(items, 1,
                              MaxPosition(Unwrap(doc[Local]).state,
                                          InboxNodeId) + 1,
                              wal.n, now))
       ELSE /\ wal' = [wal EXCEPT !.ret = "err", !.crash = None]
            /\ UNCHANGED <<disk, doc>>
            /\ WalRest

(* doc.append_op(&op) returning Ok: the line is in the pending file and
   pending_op_count is one higher *)
WalAppend(dir, d, op) ==
    [dir |-> AppendLine(dir, PendingPath(Hostname(Local)),
                        PendingLine(op, LineBytes(op))),
     doc |-> [d EXCEPT !.pending_op_count = @ + 1]]

(* the command appends its next operation *)
AppendOp ==
    /\ wal.cmd \in {"save_op", "import", "inbox"}
    /\ wal.todo # <<>>
    /\ ~wal.appended
    /\ LET r == WalAppend(disk[Local], Unwrap(doc[Local]), Head(wal.todo))
       IN /\ disk' = [disk EXCEPT ![Local] = r.dir]
          /\ doc' = [doc EXCEPT ![Local] = Some(r.doc)]
    /\ wal' = [wal EXCEPT !.appended = TRUE]
    /\ WalRest

(* "doc.append_op(&op)?" returning the error: the command ends with what
   it has appended and applied so far *)
AppendOpFails ==
    /\ wal.cmd \in {"save_op", "import", "inbox"}
    /\ wal.todo # <<>>
    /\ ~wal.appended
    /\ doc' = [doc EXCEPT ![Local] = Some(AppendOpFailed(Unwrap(@)))]
    /\ wal' = [wal EXCEPT !.todo = <<>>, !.ret = wal.cmd \o " err",
                          !.cmd = "none"]
    /\ UNCHANGED disk
    /\ WalRest

(* op.apply(&mut doc.state) of the operation just appended; after the last
   one save_op goes on to the threshold check, the imports return *)
ApplyOp ==
    /\ wal.appended
    /\ LET op == Head(wal.todo)
           d == [Unwrap(doc[Local]) EXCEPT !.state = Apply(op, @)]
           last == Tail(wal.todo) = <<>>
           compact == /\ last
                      /\ wal.cmd = "save_op"
                      /\ ShouldAutoCompact(d, disk[Local], Local)
       IN /\ doc' = [doc EXCEPT ![Local] = Some(d)]
          /\ wal' = [wal EXCEPT
                       !.todo = Tail(@),
                       !.appended = FALSE,
                       !.since = Append(@, op),
                       !.cmd = IF compact THEN "compact"
                               ELSE IF last THEN "none" ELSE @,
                       !.ret = IF last /\ ~compact THEN wal.cmd \o " ok"
                               ELSE @]
    /\ UNCHANGED disk
    /\ WalRest

(* compact_document *)
BeginCompact ==
    /\ WalReady(0)
    /\ wal' = [wal EXCEPT !.cmd = "compact", !.ret = "", !.crash = None]
    /\ UNCHANGED <<disk, doc>>
    /\ WalRest

(* Document::compact: save_state *)
CompactSaveState ==
    /\ wal.cmd = "compact"
    /\ wal.cpc = ""
    /\ disk' = [disk EXCEPT ![Local] = SaveState(Unwrap(doc[Local]), @)]
    /\ wal' = [wal EXCEPT !.cpc = "saved", !.since = <<>>]
    /\ UNCHANGED doc
    /\ WalRest

(* Document::clear_pending: remove_file of the next pending file that
   read_dir lists *)
CompactRemove(f) ==
    /\ wal.cmd = "compact"
    /\ wal.cpc = "saved"
    /\ IsPendingName(f)
    /\ disk[Local][f] # None
    /\ disk' = [disk EXCEPT ![Local][f] = None]
    /\ UNCHANGED <<doc, wal>>
    /\ WalRest

(* Document::compact after clear_pending: the count is reset *)
CompactFinish ==
    /\ wal.cmd = "compact"
    /\ wal.cpc = "saved"
    /\ \A f \in PendingNames : disk[Local][f] = None
    /\ doc' = [doc EXCEPT ![Local] = Some(CompactDoc(Unwrap(@)))]
    /\ wal' = [wal EXCEPT !.cmd = "none", !.cpc = "", !.ret = "compact ok"]
    /\ UNCHANGED disk
    /\ WalRest

(* the process stops during compact, after save_state has written
   state.json: the document in memory is gone, the directory stays as it
   is.  crash records the snapshot the compaction wrote *)
CrashInCompact ==
    /\ wal.cmd = "compact"
    /\ wal.cpc = "saved"
    /\ doc' = [doc EXCEPT ![Local] = None]
    /\ wal' = [wal EXCEPT
                 !.cmd = "none", !.cpc = "", !.ret = "",
                 !.crash = Some([snapshot |-> BaseState(disk[Local]),
                                 left |-> {f \in PendingNames :
                                              disk[Local][f] # None},
                                 loaded |-> FALSE])]
    /\ UNCHANGED disk
    /\ WalRest

(* the application starts again and loads the directory: Document::load *)
LoadAfterCrash ==
    /\ doc[Local] = None
    /\ wal.crash # None
    /\ ~LoadFails(disk[Local])
    /\ \E order \in ReadDirOrders :
          doc' = [doc EXCEPT ![Local] = Some(Load(disk[Local], order))]
    /\ wal' = [wal EXCEPT !.crash = Some([Unwrap(@) EXCEPT !.loaded = TRUE])]
    /\ UNCHANGED disk
    /\ WalRest

NextWal ==
    \/ \E op \in StoreOps : BeginSaveOp(op)
    \/ \E nodes \in WalImports : \E now \in StoreTimes :
          BeginImport(nodes, now)
    \/ \E items \in WalInboxItems : \E now \in StoreTimes :
          BeginInbox(items, now)
    \/ AppendOp
    \/ AppendOpFails
    \/ ApplyOp
    \/ BeginCompact
    \/ CompactSaveState
    \/ \E f \in PendingNames : CompactRemove(f)
    \/ CompactFinish
    \/ CrashInCompact
    \/ LoadAfterCrash

SpecWal == InitWal /\ [][NextWal]_vars

(* the operations of the lines of this machine's pending file *)
OwnPendingOps == ParsedLines(disk[Local], PendingPath(Hostname(Local)))

(* every operation applied in memory since the last load or compaction is
   a line of this machine's pending file, in the order of application *)
AppliedOpsAreOnDisk ==
    /\ Len(wal.since) <= Len(OwnPendingOps)
    /\ \A i \in 1..Len(wal.since) :
          wal.since[i] =
             OwnPendingOps[Len(OwnPendingOps) - Len(wal.since)
                           - (IF wal.appended THEN 1 ELSE 0) + i]

(* what a load of the directory would replay *)
ReplayOfDisk(order) == Load(disk[Local], order).state

(* C36: write-ahead ordering: at every step each operation applied in
   memory since the last load or compaction is a line of the local pending
   file, and when an import has failed part-way the state in memory is the
   replay of what is on disk *)
WriteAheadOrdering ==
    /\ doc[Local] # None => AppliedOpsAreOnDisk
    /\ wal.ret \in {"import err", "inbox err"} =>
          \A order \in ReadDirOrders :
             Unwrap(doc[Local]).state = ReplayOfDisk(order)

(* C37: when the process stopped after compact had written state.json and
   before it had removed every pending file, the load that follows yields
   the state of the snapshot compact wrote *)
CompactCrashConsistent ==
    (wal.crash # None /\ Unwrap(wal.crash).loaded) =>
       Unwrap(doc[Local]).state = Unwrap(wal.crash).snapshot

(***************************************************************************)
(* SpecInbox: import_inbox_items draining inbox.jsonl while the capture    *)
(* producer, another process, appends items to the file.                   *)
(***************************************************************************)
(* the items the producer captures, named by their id; the content of an
   item is modelled by the id as well *)
InboxItems == 1..MaxItems

(* read_inbox: the items of the lines of the file, none when the file does
   not exist *)
ReadInbox(file) == IF file = None THEN <<>> ELSE Unwrap(file)

(* items.into_iter().filter(|item| !ids.contains(&item.id)).collect() *)
RECURSIVE FilterItems(_, _)
FilterItems(items, ids) ==
    IF items = <<>>
    THEN <<>>
    ELSE (IF Head(items) \in ids THEN <<>> ELSE <<Head(items)>>)
         \o FilterItems(Tail(items), ids)

(* remove_inbox_items, second half: remove_file when nothing remains,
   File::create and one line per remaining item otherwise *)
WriteBack(remaining) ==
    IF remaining = <<>> THEN None ELSE Some(remaining)

InboxStart ==
    [file |-> None, pc |-> "idle", items |-> <<>>, remaining |-> <<>>,
     nodes |-> {}, made |-> 0, ret |-> ""]

(* no inbox file yet, or one captured item waiting in it *)
InitInbox ==
    /\ inb \in {InboxStart,
                [InboxStart EXCEPT !.file = Some(<<1>>), !.made = 1]}
    /\ disk = [m \in Machines |-> [f \in FileNames |-> None]]
    /\ doc = [m \in Machines |-> None]
    /\ dirty = [m \in Machines |-> {}]
    /\ fresh = [m \in Machines |-> FALSE]
    /\ seen = [m \in Machines |-> [f \in FileNames |-> None]]
    /\ lastCompact = [m \in Machines |-> None]
    /\ saves = 0
    /\ CmdIdle
    /\ st0 = EmptyState /\ log = <<>> /\ pre = EmptyState /\ st = EmptyState
    /\ ThreadIdle
    /\ ExportIdle
    /\ WatcherIdle
    /\ IndexIdle
    /\ ParseIdle
    /\ WalIdle

(* the capture producer appends a line with a new item to inbox.jsonl,
   creating the file when it is missing *)
Capture ==
    /\ inb.made < MaxItems
    /\ inb' = [inb EXCEPT
                 !.made = @ + 1,
                 !.file = Some(Append(ReadInbox(@), inb.made + 1))]
    /\ UNCHANGED notInboxVars

(* import_inbox_items up to "if items.is_empty()": Ok(0) on an empty or
   missing file *)
ImportRead ==
    /\ inb.pc = "idle"
    /\ LET items == ReadInbox(inb.file) IN
       inb' = [inb EXCEPT
                 !.items = items,
                 !.remaining = <<>>,
                 !.pc = IF items = <<>> THEN "idle" ELSE "create",
                 !.ret = IF items = <<>> THEN "ok 0" ELSE ""]
    /\ UNCHANGED notInboxVars

(* the loop over the items: a node below the inbox node for each *)
ImportCreate ==
    /\ inb.pc = "create"
    /\ inb' = [inb EXCEPT
                 !.nodes = @ \cup SeqToSet(inb.items),
                 !.pc = "remove"]
    /\ UNCHANGED notInboxVars

(* the command returns an error before the loop (no document, no inbox
   node) or from an append_op inside it: the first k items have their node
   and remove_inbox_items is not reached *)
ImportCreateFails(k) ==
    /\ inb.pc = "create"
    /\ k < Len(inb.items)
    /\ inb' = [inb EXCEPT
                 !.nodes = @ \cup SeqToSet(SubSeq(inb.items, 1, k)),
                 !.pc = "idle",
                 !.ret = "err"]
    /\ UNCHANGED notInboxVars

(* remove_inbox_items, first half: Ok when the file is gone, otherwise
   read_inbox again and filter out the imported ids *)
RemoveRead ==
    /\ inb.pc = "remove"
    /\ IF inb.file = None
       THEN inb' = [inb EXCEPT !.pc = "idle", !.ret = "ok"]
       ELSE inb' = [inb EXCEPT
                      !.remaining = FilterItems(ReadInbox(inb.file),
                                                SeqToSet(inb.items)),
                      !.pc = "write"]
    /\ UNCHANGED notInboxVars

(* remove_inbox_items, second half, and the return of the command *)
RemoveWrite ==
    /\ inb.pc = "write"
    /\ inb' = [inb EXCEPT
                 !.file = WriteBack(inb.remaining),
                 !.pc = "idle",
                 !.ret = "ok"]
    /\ UNCHANGED notInboxVars

NextInbox ==
    \/ Capture
    \/ ImportRead
    \/ ImportCreate
    \/ \E k \in 0..MaxItems : ImportCreateFails(k)
    \/ RemoveRead
    \/ RemoveWrite

SpecInbox == InitInbox /\ [][NextInbox]_vars

(* C40: every item the producer has appended to inbox.jsonl is a line of
   the file or has a node below the inbox node, at every moment: no item
   leaves the file without a node having been created for it, whenever it
   was appended *)
InboxLosesNothing ==
    \A item \in 1..inb.made :
       \/ item \in SeqToSet(ReadInbox(inb.file))
       \/ item \in inb.nodes

====
